---------------------------- MODULE Spec2Model ----------------------------
(***************************************************************************)
(* A model of rowguard's predicate compiler: the SQL escaping layer, the    *)
(* condition tree and its and/or composition, the table-reference          *)
(* validator and the subquery builder.                                     *)
(*                                                                         *)
(* Text is modelled as a sequence of one-character strings, so that        *)
(* quoting and escaping are computed character by character.  A call that  *)
(* may throw returns a record: [threw |-> FALSE, text |-> ...] or          *)
(* [threw |-> TRUE, error |-> ...].                                        *)
(***************************************************************************)
EXTENDS Integers, Sequences, FiniteSets, TLC

VARIABLES
  call,     \* the rendering call under way: [fn, arg], or [fn |-> "none"]
  result,   \* what that call returned or threw, or NotCalled
  opA, opB, opC,   \* three conditions A, B, C held by the caller
  chained,  \* the chains built from them: A.op(B), A.op(B).op(C), B.op(C), A.op(B.op(C))
  sb,       \* the SubqueryBuilder's private fields
  last,     \* the last builder call and its outcome
  heap,     \* the objects and/or calls have allocated, by address
  chains,   \* the addresses of the conditions the caller's chains wrap
  policy,   \* the policy builder's PolicyDefinition, with the calls made on it
  rendered, \* what the last toSQL(options) of the policy builder returned or threw
  member,   \* the condition column(c).in(builder) returned, holding the builder by reference
  shown     \* what the first and the latest toSQL() of that condition returned or threw

vars ==
  <<call, result, opA, opB, opC, chained, sb, last, heap, chains, policy, rendered,
    member, shown>>

RECURSIVE ReplaceAll(_, _, _)
RECURSIVE Join(_, _)
RECURSIVE Digits(_)
RECURSIVE escapeValue(_)
RECURSIVE toSQL(_)
RECURSIVE toSubquery(_)
RECURSIVE subqueryToSQL(_)

----------------------------------------------------------------------------
(* Bounds of the model.                                                    *)

MaxIdentLen == 3
MaxStrLen == 3
MaxArrayLen == 3
MaxLeaves == 4
MaxJoins == 2

----------------------------------------------------------------------------
(* Text primitives of the JavaScript runtime the code relies on.           *)

Ok(text) == [threw |-> FALSE, text |-> text]
Throw(error) == [threw |-> TRUE, error |-> error]

\* String.prototype.replace(/c/g, rep): every occurrence of the character c.
ReplaceAll(s, c, rep) ==
  IF s = <<>> THEN <<>>
  ELSE (IF Head(s) = c THEN rep ELSE <<Head(s)>>) \o ReplaceAll(Tail(s), c, rep)

\* Array.prototype.join(sep) over texts.
Join(texts, sep) ==
  IF texts = <<>> THEN <<>>
  ELSE IF Len(texts) = 1 THEN texts[1]
  ELSE texts[1] \o sep \o Join(Tail(texts), sep)

DigitChar(d) ==
  CASE d = 0 -> "0" [] d = 1 -> "1" [] d = 2 -> "2" [] d = 3 -> "3" [] d = 4 -> "4"
    [] d = 5 -> "5" [] d = 6 -> "6" [] d = 7 -> "7" [] d = 8 -> "8" [] d = 9 -> "9"

Digits(n) == IF n < 10 THEN <<DigitChar(n)>> ELSE Digits(n \div 10) \o <<DigitChar(n % 10)>>

\* String(n) for an integer number n.
NumberToString(n) == IF n < 0 THEN <<"-">> \o Digits(-n) ELSE Digits(n)

\* The first thrown result of a sequence of results, in evaluation order.
FirstThrow(results) ==
  LET i == CHOOSE k \in 1..Len(results) :
             /\ results[k].threw
             /\ \A j \in 1..(k - 1) : ~results[j].threw
  IN results[i]

AnyThrew(results) == \E k \in 1..Len(results) : results[k].threw

Texts(results) == [k \in 1..Len(results) |-> results[k].text]

\* A template literal `${r1}${r2}...`: the concatenation, or the first throw.
Template(results) ==
  IF AnyThrew(results) THEN FirstThrow(results) ELSE Ok(Join(Texts(results), <<>>))

----------------------------------------------------------------------------
(* sql.ts: identifier and value escaping.                                  *)

LowerCase == {"a", "b", "c", "d", "e", "f", "g", "h", "i", "j", "k", "l", "m",
              "n", "o", "p", "q", "r", "s", "t", "u", "v", "w", "x", "y", "z"}
UpperCase == {"A", "B", "C", "D", "E", "F", "G", "H", "I", "J", "K", "L", "M",
              "N", "O", "P", "Q", "R", "S", "T", "U", "V", "W", "X", "Y", "Z"}
DigitChars == {"0", "1", "2", "3", "4", "5", "6", "7", "8", "9"}

\* The character class [^a-zA-Z0-9_] of escapeIdentifier's test.
IsSpecialChar(c) == c \notin (LowerCase \cup UpperCase \cup DigitChars \cup {"_"})

DQ == <<"\"">>
SQ == <<"'">>

escapeIdentifier(identifier) ==
  IF \E i \in 1..Len(identifier) : IsSpecialChar(identifier[i])
  THEN DQ \o ReplaceAll(identifier, "\"", <<"\"", "\"">>) \o DQ
  ELSE identifier

T_NULL == <<"N", "U", "L", "L">>
T_TRUE == <<"T", "R", "U", "E">>
T_FALSE == <<"F", "A", "L", "S", "E">>
T_TIMESTAMP == <<"'", ":", ":", "T", "I", "M", "E", "S", "T", "A", "M", "P">>
T_ARRAY == <<"A", "R", "R", "A", "Y", "[">>
T_COMMA == <<",", " ">>
T_undefined == <<"u", "n", "d", "e", "f", "i", "n", "e", "d">>

\* String(value) of the fallback branch, for the values that reach it.
StringOf(value) ==
  CASE value.t = "undefined" -> Ok(T_undefined)
    [] value.t = "object" -> Ok(value.str)
    [] value.t = "nullproto" -> Throw("TypeError")

\* A bug escapeValue could have: the items joined by "," alone.
ArrayLiteral_CommaOnly(escapedItems) ==
  T_ARRAY \o Join(escapedItems, <<",">>) \o <<"]">>

\* `ARRAY[${escapedItems.join(", ")}]`
ArrayLiteral(escapedItems) ==
  T_ARRAY \o Join(escapedItems, T_COMMA) \o <<"]">>

escapeValue(value) ==
  CASE value.t = "null" -> Ok(T_NULL)
    [] value.t = "boolean" -> Ok(IF value.b THEN T_TRUE ELSE T_FALSE)
    [] value.t = "number" -> Ok(NumberToString(value.n))
    [] value.t = "date" ->
         IF value.valid THEN Ok(SQ \o value.iso \o T_TIMESTAMP) ELSE Throw("RangeError")
    [] value.t = "sqlexpr" -> Ok(value.expression)
    [] value.t = "array" ->
         LET escapedItems == [i \in 1..Len(value.items) |-> escapeValue(value.items[i])]
         IN IF AnyThrew(escapedItems) THEN FirstThrow(escapedItems)
            ELSE Ok(ArrayLiteral(Texts(escapedItems)))
    [] value.t = "string" -> Ok(SQ \o ReplaceAll(value.s, "'", <<"'", "'">>) \o SQ)
    [] value.t = "condition" -> toSQL(value.cond)
    [] OTHER -> Template(<<Ok(SQ), StringOf(value), Ok(SQ)>>)

----------------------------------------------------------------------------
(* context.ts: context leaves.                                             *)

T_authuid == <<"a", "u", "t", "h", ".", "u", "i", "d", "(", ")">>
T_current_user == <<"c", "u", "r", "r", "e", "n", "t", "_", "u", "s", "e", "r">>

auth_uid == [type |-> "context", contextType |-> "auth_uid"]
currentUser == [type |-> "context", contextType |-> "current_user"]

T_current_setting ==
  <<"c", "u", "r", "r", "e", "n", "t", "_", "s", "e", "t", "t", "i", "n", "g", "(">>
T_true_close == <<",", " ", "t", "r", "u", "e", ")">>

\* The typeCast of session.get(key, type).toSQL().
typeCast(type) ==
  CASE type = "integer" -> <<":", ":", "I", "N", "T", "E", "G", "E", "R">>
    [] type = "uuid" -> <<":", ":", "U", "U", "I", "D">>
    [] type = "boolean" -> <<":", ":", "B", "O", "O", "L", "E", "A", "N">>
    [] type = "timestamp" -> <<":", ":", "T", "I", "M", "E", "S", "T", "A", "M", "P">>
    [] OTHER -> <<>>

\* session.get(key, type)
session_get(key, type) ==
  [type |-> "context", contextType |-> "session", key |-> key, sessionType |-> type]

----------------------------------------------------------------------------
(* column.ts and sql.ts: the condition tree.  A condition is a record      *)
(* tagged by its type; a JavaScript value is a record tagged by t, and a   *)
(* condition used as a value is [t |-> "condition", cond |-> c].           *)

T_LIKE == <<" ", "L", "I", "K", "E", " ">>
T_ILIKE == <<" ", "I", "L", "I", "K", "E", " ">>
T_IN == <<" ", "I", "N", " ", "(">>
T_CONTAINS == <<" ", "@", ">", " ">>
T_IS_NULL == <<" ", "I", "S", " ", "N", "U", "L", "L">>
T_IS_NOT_NULL == <<" ", "I", "S", " ", "N", "O", "T", " ", "N", "U", "L", "L">>
T_AND == <<" ", "A", "N", "D", " ">>
T_OR == <<" ", "O", "R", " ">>
T_true == <<"t", "r", "u", "e">>
T_user_id == <<"u", "s", "e", "r", "_", "i", "d">>
T_role == <<"r", "o", "l", "e">>
T_EQ == <<" ", "=", " ">>
T_hasRole1 ==
  <<"E", "X", "I", "S", "T", "S", " ", "(", "\n", " ", " ", " ", " ", " ",
    " ", " ", " ", "S", "E", "L", "E", "C", "T", " ", "1", "\n", " ", " ",
    " ", " ", " ", " ", " ", " ", "F", "R", "O", "M", " ">>
T_hasRole2 ==
  <<"\n", " ", " ", " ", " ", " ", " ", " ", " ", "W", "H", "E", "R", "E",
    " ">>
T_hasRole3 ==
  <<"\n", " ", " ", " ", " ", " ", " ", " ", " ", "A", "N", "D", " ">>
T_hasRole4 ==
  <<"\n", " ", " ", " ", " ", " ", " ", ")">>
T_isMemberOf1 ==
  <<" ", "I", "N", " ", "(", "\n", " ", " ", " ", " ", " ", " ", " ", " ",
    " ", " ", "S", "E", "L", "E", "C", "T", " ">>
T_isMemberOf2 ==
  <<"\n", " ", " ", " ", " ", " ", " ", " ", " ", " ", " ", "F", "R", "O",
    "M", " ">>
T_isMemberOf3 ==
  <<"\n", " ", " ", " ", " ", " ", " ", " ", " ", " ", " ", "W", "H", "E",
    "R", "E", " ">>
T_isMemberOf4 ==
  <<"\n", " ", " ", " ", " ", " ", " ", " ", " ", ")">>

operatorMap(operator) ==
  CASE operator = "eq" -> <<"=">>
    [] operator = "neq" -> <<"!", "=">>
    [] operator = "gt" -> <<">">>
    [] operator = "gte" -> <<">", "=">>
    [] operator = "lt" -> <<"<">>
    [] operator = "lte" -> <<"<", "=">>

createComparison(column, operator, value) ==
  [type |-> "comparison", column |-> column, operator |-> operator, value |-> value]

\* ColumnBuilder.like / ilike
Pattern(columnName, operator, pattern) ==
  [type |-> "pattern", column |-> columnName, operator |-> operator, pattern |-> pattern]

\* ColumnBuilder.in / contains
Membership(columnName, operator, value) ==
  [type |-> "membership", column |-> columnName, operator |-> operator, value |-> value]

\* ColumnBuilder.isNull / isNotNull
NullCheck(columnName, value) ==
  [type |-> "null", column |-> columnName, value |-> value]

Param(k, v) == [k |-> k, v |-> v]

isMemberOf(joinTable, foreignKey, localKey) ==
  [type |-> "helper", helperType |-> "isMemberOf",
   params |-> <<Param("joinTable", joinTable), Param("foreignKey", foreignKey),
                Param("localKey", localKey)>>]

hasRole(role, userRolesTable) ==
  [type |-> "helper", helperType |-> "hasRole",
   params |-> <<Param("role", role), Param("userRolesTable", userRolesTable)>>]

alwaysTrue == [type |-> "helper", helperType |-> "alwaysTrue", params |-> <<>>]

\* call(functionName, args): an argument is a string or a condition.
callFunction(functionName, args) ==
  [type |-> "function", functionName |-> functionName, arguments |-> args]

StringValue(s) == [t |-> "string", s |-> s]
ConditionValue(c) == [t |-> "condition", cond |-> c]

ParamOf(cond, k) ==
  LET i == CHOOSE j \in 1..Len(cond.params) : cond.params[j].k = k
  IN cond.params[i].v

\* The toSQL() method each condition object carries.
toSQL(cond) ==
  CASE cond.type = "comparison" ->
         Template(<<Ok(escapeIdentifier(cond.column)), Ok(<<" ">>),
                    Ok(operatorMap(cond.operator)), Ok(<<" ">>),
                    escapeValue(cond.value)>>)
    [] cond.type = "pattern" ->
         Template(<<Ok(escapeIdentifier(cond.column)),
                    Ok(IF cond.operator = "like" THEN T_LIKE ELSE T_ILIKE),
                    escapeValue(StringValue(cond.pattern))>>)
    [] cond.type = "membership" /\ cond.operator = "in" /\ cond.value.t = "subquery" ->
         Template(<<Ok(escapeIdentifier(cond.column)), Ok(<<" ", "I", "N", " ">>),
                    subqueryToSQL(toSubquery(cond.value.builder))>>)
    [] cond.type = "membership" /\ cond.operator = "in" ->
         LET values == cond.value.items
             escaped == [i \in 1..Len(values) |-> escapeValue(values[i])]
         IN IF AnyThrew(escaped) THEN FirstThrow(escaped)
            ELSE Ok(escapeIdentifier(cond.column) \o T_IN
                    \o Join(Texts(escaped), T_COMMA) \o <<")">>)
    [] cond.type = "membership" /\ cond.operator = "contains" ->
         Template(<<Ok(escapeIdentifier(cond.column)), Ok(T_CONTAINS),
                    escapeValue(cond.value)>>)
    [] cond.type = "null" ->
         Ok(escapeIdentifier(cond.column)
            \o (IF cond.value = "null" THEN T_IS_NULL ELSE T_IS_NOT_NULL))
    [] cond.type = "logical" ->
         LET parts == [i \in 1..Len(cond.conditions) |-> toSQL(cond.conditions[i])]
         IN IF AnyThrew(parts) THEN FirstThrow(parts)
            ELSE Ok(<<"(">>
                    \o Join(Texts(parts), IF cond.operator = "AND" THEN T_AND ELSE T_OR)
                    \o <<")">>)
    [] cond.type = "context" /\ cond.contextType = "auth_uid" -> Ok(T_authuid)
    [] cond.type = "context" /\ cond.contextType = "current_user" -> Ok(T_current_user)
    [] cond.type = "context" /\ cond.contextType = "session" ->
         Ok(T_current_setting \o SQ \o cond.key \o SQ \o T_true_close
            \o typeCast(cond.sessionType))
    [] cond.type = "helper" /\ cond.helperType = "alwaysTrue" -> Ok(T_true)
    [] cond.type = "helper" /\ cond.helperType = "hasRole" ->
         Template(<<Ok(T_hasRole1), Ok(escapeIdentifier(ParamOf(cond, "userRolesTable"))),
                    Ok(T_hasRole2), Ok(escapeIdentifier(T_user_id)), Ok(T_EQ),
                    toSQL(auth_uid),
                    Ok(T_hasRole3), Ok(escapeIdentifier(T_role)), Ok(T_EQ),
                    escapeValue(StringValue(ParamOf(cond, "role"))), Ok(T_hasRole4)>>)
    [] cond.type = "helper" /\ cond.helperType = "isMemberOf" ->
         Template(<<Ok(escapeIdentifier(ParamOf(cond, "localKey"))), Ok(T_isMemberOf1),
                    Ok(escapeIdentifier(ParamOf(cond, "foreignKey"))), Ok(T_isMemberOf2),
                    Ok(escapeIdentifier(ParamOf(cond, "joinTable"))), Ok(T_isMemberOf3),
                    Ok(escapeIdentifier(T_user_id)), Ok(T_EQ), toSQL(auth_uid),
                    Ok(T_isMemberOf4)>>)
    [] cond.type = "function" ->
         LET args == cond.arguments
             parts == [i \in 1..Len(args) |->
                         IF args[i].t = "string" THEN Ok(escapeIdentifier(args[i].s))
                         ELSE toSQL(args[i].cond)]
         IN IF AnyThrew(parts) THEN FirstThrow(parts)
            ELSE Ok(escapeIdentifier(cond.functionName) \o <<"(">>
                    \o Join(Texts(parts), T_COMMA) \o <<")">>)

----------------------------------------------------------------------------
(* column.ts: ConditionChain, the and/or composition.                      *)

\* A bug flattenConditions could have: the left operand is never spliced.
flattenConditions_LeftNested(left, right, operator) ==
  <<left>> \o (IF right.type = "logical" /\ right.operator = operator
               THEN right.conditions ELSE <<right>>)

\* A bug flattenConditions could have: the right operand is never spliced.
flattenConditions_RightNested(left, right, operator) ==
  (IF left.type = "logical" /\ left.operator = operator
   THEN left.conditions ELSE <<left>>) \o <<right>>

\* A bug flattenConditions could have: the right operand's conditions are
\* put before the left operand's.
flattenConditions_RightFirst(left, right, operator) ==
  (IF right.type = "logical" /\ right.operator = operator
   THEN right.conditions ELSE <<right>>)
  \o (IF left.type = "logical" /\ left.operator = operator
      THEN left.conditions ELSE <<left>>)

flattenConditions(left, right, operator) ==
  LET leftConditions ==
        IF left.type = "logical" /\ left.operator = operator
        THEN left.conditions ELSE <<left>>
      rightConditions ==
        IF right.type = "logical" /\ right.operator = operator
        THEN right.conditions ELSE <<right>>
  IN leftConditions \o rightConditions

\* this.chainWith(other, operator), on the conditions the two chains wrap.
chainWith(this, other, operator) ==
  [type |-> "logical", operator |-> operator,
   conditions |-> flattenConditions(this, other, operator)]

\* No condition: an undefined where-clause or operand.
NoCondition == [type |-> "none"]

----------------------------------------------------------------------------
(* validation.ts: table references of a condition tree.  An absent string  *)
(* (undefined, null) is a one-element sequence whose element is no         *)
(* character, so that it differs from every text.                          *)

RECURSIVE traverse(_, _)
RECURSIVE TraverseAll(_, _)
RECURSIVE TraverseParams(_, _)
RECURSIVE TraverseArguments(_, _)

JSUndefined == <<"(undefined)">>
JSNull == <<"(null)">>

\* A string in a boolean position: absent and empty strings are falsy.
Truthy(s) == s \notin {JSUndefined, JSNull, <<>>}

\* s.indexOf(c, fromIndex), 0-based, -1 when there is none.
IndexOf(s, c, fromIndex) ==
  LET hits == {i \in fromIndex..(Len(s) - 1) : s[i + 1] = c}
  IN IF hits = {} THEN -1 ELSE CHOOSE i \in hits : \A j \in hits : i <= j

\* s[i], 0-based: undefined past the end.
CharAt(s, i) == IF i + 1 \in 1..Len(s) THEN s[i + 1] ELSE "(undefined)"

\* s.substring(start, end), 0-based, end excluded.
Substring(s, start, end) == SubSeq(s, start + 1, end)

extractTableFromColumn(columnRef) ==
  LET endQuote == IndexOf(columnRef, "\"", 1)
      dotIndex == IndexOf(columnRef, ".", 0)
  IN IF /\ CharAt(columnRef, 0) = "\""
        /\ endQuote > 0
        /\ CharAt(columnRef, endQuote + 1) = "."
     THEN Substring(columnRef, 1, endQuote)
     ELSE IF dotIndex > 0 THEN Substring(columnRef, 0, dotIndex)
     ELSE JSNull

Range(f) == {f[i] : i \in DOMAIN f}

\* Set.prototype.add on a set kept in insertion order.
SetAdd(tables, table) == IF table \in Range(tables) THEN tables ELSE Append(tables, table)

\* `const table = extractTableFromColumn(ref); if (table) tables.add(table)`
AddTableOf(tables, ref) ==
  LET table == extractTableFromColumn(ref)
  IN IF Truthy(table) THEN SetAdd(tables, table) ELSE tables

\* conditions.forEach(traverse)
TraverseAll(conditions, tables) ==
  IF conditions = <<>> THEN tables
  ELSE TraverseAll(Tail(conditions), traverse(Head(conditions), tables))

\* Object.values(helper.params).forEach(...): every parameter is a string.
TraverseParams(params, tables) ==
  IF params = <<>> THEN tables
  ELSE TraverseParams(Tail(params), AddTableOf(tables, Head(params).v))

\* func.arguments.forEach(...): a string, or an object with toSQL.
TraverseArguments(arguments, tables) ==
  IF arguments = <<>> THEN tables
  ELSE TraverseArguments(
         Tail(arguments),
         IF Head(arguments).t = "string" THEN AddTableOf(tables, Head(arguments).s)
         ELSE traverse(Head(arguments).cond, tables))

\* traverse(cond) of extractTableReferences; tables is the set collected so far.
traverse(cond, tables) ==
  CASE cond.type = "comparison" ->
         LET withColumn == AddTableOf(tables, cond.column)
         IN IF cond.value.t = "condition" THEN traverse(cond.value.cond, withColumn)
            ELSE withColumn
    [] cond.type = "pattern" -> AddTableOf(tables, cond.column)
    [] cond.type = "null" -> AddTableOf(tables, cond.column)
    [] cond.type = "logical" -> TraverseAll(cond.conditions, tables)
    [] cond.type = "membership" ->
         IF Truthy(cond.column) THEN AddTableOf(tables, cond.column) ELSE tables
    [] cond.type = "helper" -> TraverseParams(cond.params, tables)
    [] cond.type = "function" -> TraverseArguments(cond.arguments, tables)
    [] OTHER -> tables

extractTableReferences(condition) == traverse(condition, <<>>)

\* A bug getAvailableTables could have: the joins are left out.
getAvailableTables_FromOnly(fromTable, fromAlias, joins) ==
  {IF Truthy(fromAlias) THEN fromAlias ELSE fromTable}

\* The set of available tables; only membership in it is ever read.
getAvailableTables(fromTable, fromAlias, joins) ==
  {IF Truthy(fromAlias) THEN fromAlias ELSE fromTable}
  \cup {IF Truthy(joins[i].alias) THEN joins[i].alias ELSE joins[i].table : i \in DOMAIN joins}

\* A bug detectMissingJoins could have: it stops at the first missing table.
detectMissingJoins_FirstOnly(condition, availableTables) ==
  IF condition.type = "none" THEN <<>>
  ELSE LET missing == SelectSeq(extractTableReferences(condition),
                                LAMBDA table : table \notin availableTables)
       IN IF missing = <<>> THEN <<>> ELSE <<missing[1]>>

detectMissingJoins(condition, availableTables) ==
  IF condition.type = "none" THEN <<>>
  ELSE SelectSeq(extractTableReferences(condition),
                 LAMBDA table : table \notin availableTables)

----------------------------------------------------------------------------
(* subquery-builder.ts: the subquery builder.                              *)

E_joinUnavailable ==
  <<"J", "o", "i", "n", " ", "c", "o", "n", "d", "i", "t", "i", "o", "n",
    " ", "r", "e", "f", "e", "r", "e", "n", "c", "e", "s", " ", "u", "n",
    "a", "v", "a", "i", "l", "a", "b", "l", "e", " ", "t", "a", "b", "l",
    "e", "(", "s", ")", ":", " ">>
E_missingJoins ==
  <<"M", "i", "s", "s", "i", "n", "g", " ", "j", "o", "i", "n", "(", "s",
    ")", " ", "f", "o", "r", " ", "t", "a", "b", "l", "e", "(", "s", ")",
    ":", " ">>
E_addJoin ==
  <<".", " ", "A", "d", "d", " ", "a", " ", "j", "o", "i", "n", " ", "u",
    "s", "i", "n", "g", " ", ".", "j", "o", "i", "n", "(", "'">>
E_beforeWhere ==
  <<"'", ",", " ", ".", ".", ".", ")", " ", "b", "e", "f", "o", "r", "e",
    " ", "c", "a", "l", "l", "i", "n", "g", " ", ".", "w", "h", "e", "r",
    "e", "(", ")">>

Returns == [threw |-> FALSE]

\* A bug validateTableReferences could have: the table the join introduces
\* is not exempted.
validateTableReferences_NoExemption(condition, from, fromAlias, joins, allowedMissing) ==
  LET missing == detectMissingJoins(condition, getAvailableTables(from, fromAlias, joins))
  IN IF missing = <<>> THEN Returns
     ELSE IF Truthy(allowedMissing)
     THEN Throw(E_joinUnavailable \o Join(missing, T_COMMA))
     ELSE Throw(E_missingJoins \o Join(missing, T_COMMA)
                \o E_addJoin \o missing[1] \o E_beforeWhere)

\* Returns, or throws an Error with the message in its error field.
validateTableReferences(condition, from, fromAlias, joins, allowedMissing) ==
  LET availableTables == getAvailableTables(from, fromAlias, joins)
      missing == detectMissingJoins(condition, availableTables)
      filteredMissing ==
        IF Truthy(allowedMissing)
        THEN SelectSeq(missing, LAMBDA t : t # allowedMissing)
        ELSE missing
  IN IF Len(missing) > 0 /\ Len(filteredMissing) > 0
     THEN IF Truthy(allowedMissing)
          THEN Throw(E_joinUnavailable \o Join(filteredMissing, T_COMMA))
          ELSE Throw(E_missingJoins \o Join(filteredMissing, T_COMMA)
                     \o E_addJoin \o filteredMissing[1] \o E_beforeWhere)
     ELSE Returns

\* new SubqueryBuilder(from, alias)
SubqueryBuilder(from, alias) ==
  [from |-> from, fromAlias |-> alias, select |-> StringValue(<<"*">>),
   where |-> NoCondition, joins |-> <<>>]

NoJoin == [table |-> JSUndefined]

\* The SubqueryDefinition toSubquery() returns; an absent alias, where or
\* join is JSUndefined, NoCondition or NoJoin.
toSubquery(b) ==
  [from |-> b.from,
   select |-> b.select,
   alias |-> IF Truthy(b.fromAlias) THEN b.fromAlias ELSE JSUndefined,
   where |-> b.where,
   join |-> IF Len(b.joins) > 0
            THEN [table |-> b.joins[1].table, alias |-> b.joins[1].alias,
                  on |-> b.joins[1].on, type |-> b.joins[1].type]
            ELSE NoJoin]

----------------------------------------------------------------------------
(* sql.ts: rendering a SubqueryDefinition.                                 *)

T_SELECT == <<"S", "E", "L", "E", "C", "T", " ">>
T_FROM == <<" ", "F", "R", "O", "M", " ">>
T_JOIN == <<" ", "J", "O", "I", "N", " ">>
T_ON == <<" ", "O", "N", " ">>
T_WHERE == <<" ", "W", "H", "E", "R", "E", " ">>

Alphabet ==
  <<"a", "b", "c", "d", "e", "f", "g", "h", "i", "j", "k", "l", "m",
    "n", "o", "p", "q", "r", "s", "t", "u", "v", "w", "x", "y", "z">>
AlphabetUpper ==
  <<"A", "B", "C", "D", "E", "F", "G", "H", "I", "J", "K", "L", "M",
    "N", "O", "P", "Q", "R", "S", "T", "U", "V", "W", "X", "Y", "Z">>

\* String.prototype.toUpperCase
toUpperCase(s) ==
  [i \in 1..Len(s) |->
     IF \E k \in 1..26 : Alphabet[k] = s[i]
     THEN AlphabetUpper[CHOOSE k \in 1..26 : Alphabet[k] = s[i]]
     ELSE s[i]]

\* A bug subqueryToSQL could have: no default for an absent join type.
joinType_NoDefault(type) == IF Truthy(type) THEN toUpperCase(type) ELSE <<>>

\* (subquery.join.type || "inner").toUpperCase()
joinType(type) == toUpperCase(IF Truthy(type) THEN type ELSE <<"i", "n", "n", "e", "r">>)

\* The columns of a select: one name, or a sequence of names.
selectList(select) ==
  IF select.t = "array"
  THEN Join([i \in 1..Len(select.items) |-> escapeIdentifier(select.items[i].s)], T_COMMA)
  ELSE escapeIdentifier(select.s)

subqueryToSQL(subquery) ==
  LET from == escapeIdentifier(subquery.from)
      alias == IF Truthy(subquery.alias)
               THEN <<" ">> \o escapeIdentifier(subquery.alias) ELSE <<>>
      select == selectList(subquery.select)
      joinAlias == IF Truthy(subquery.join.alias)
                   THEN <<" ">> \o escapeIdentifier(subquery.join.alias) ELSE <<>>
      joined == IF subquery.join # NoJoin
                THEN Template(<<Ok(<<" ">> \o joinType(subquery.join.type) \o T_JOIN
                                   \o escapeIdentifier(subquery.join.table)
                                   \o joinAlias \o T_ON),
                                toSQL(subquery.join.on)>>)
                ELSE Ok(<<>>)
      filtered == IF subquery.where # NoCondition
                  THEN Template(<<Ok(T_WHERE), toSQL(subquery.where)>>)
                  ELSE Ok(<<>>)
  IN Template(<<Ok(<<"(">> \o T_SELECT \o select \o T_FROM \o from \o alias),
                joined, filtered, Ok(<<")">>)>>)

----------------------------------------------------------------------------
(* composition.ts: policy groups.  A member policy is known here by what   *)
(* its toSQL(options) returns or throws, with and without includeIndexes.  *)

MaxPolicies == 3

T_comment == <<"-", "-", " ">>
T_statementBreak == <<";", "\n", "\n">>

\* p.toSQL(options)
memberToSQL(p, options) == IF options.includeIndexes THEN p.indexed ELSE p.plain

createPolicyGroup(name, policies, description) ==
  [name |-> name, policies |-> policies, description |-> description]

\* A bug policyGroupToSQL could have: the members joined in reverse order.
policyGroupToSQL_Reversed(group, options) ==
  LET n == Len(group.policies)
      policySQLs == [i \in 1..n |-> memberToSQL(group.policies[n + 1 - i], options)]
  IN IF AnyThrew(policySQLs) THEN FirstThrow(policySQLs)
     ELSE IF Truthy(group.description)
     THEN Ok(T_comment \o group.description \o <<"\n">>
             \o Join(Texts(policySQLs), T_statementBreak) \o <<";">>)
     ELSE Ok(Join(Texts(policySQLs), T_statementBreak) \o <<";">>)

policyGroupToSQL(group, options) ==
  LET policySQLs == [i \in 1..Len(group.policies) |->
                       memberToSQL(group.policies[i], options)]
  IN IF AnyThrew(policySQLs) THEN FirstThrow(policySQLs)
     ELSE IF Truthy(group.description)
     THEN Ok(T_comment \o group.description \o <<"\n">>
             \o Join(Texts(policySQLs), T_statementBreak) \o <<";">>)
     ELSE Ok(Join(Texts(policySQLs), T_statementBreak) \o <<";">>)

----------------------------------------------------------------------------
(* The values and identifiers handed to the rendering functions.           *)

NullValue == [t |-> "null"]
BooleanValue(b) == [t |-> "boolean", b |-> b]
NumberValue(n) == [t |-> "number", n |-> n]
\* A Date: a valid one has the text toISOString() returns; toISOString()
\* of an invalid one (new Date(NaN)) throws a RangeError.
DateValue(valid, iso) == [t |-> "date", valid |-> valid, iso |-> iso]
\* sql(expression): the raw-SQL escape hatch.
SQLExpression(expression) == [t |-> "sqlexpr", expression |-> expression]
ArrayValue(items) == [t |-> "array", items |-> items]
Undefined == [t |-> "undefined"]
\* An object without toSQL whose string conversion yields str (its own
\* toString(), or a symbol's description).
ObjectValue(str) == [t |-> "object", str |-> str]
\* Object.create(null): String() of it throws a TypeError.
NullProtoObject == [t |-> "nullproto"]

SeqsUpTo(S, n) == UNION {[1..k -> S] : k \in 0..n}

IdentChars == {"a", "Z", "9", "_", "\"", " ", "."}
Identifiers == SeqsUpTo(IdentChars, MaxIdentLen)

StrChars == {"a", "b", "'"}
Strings == SeqsUpTo(StrChars, MaxStrLen)

T_iso ==
  <<"2", "0", "2", "4", "-", "0", "1", "-", "1", "5", "T", "1", "0", ":",
    "3", "0", ":", "0", "0", ".", "0", "0", "0", "Z">>
T_now == <<"n", "o", "w", "(", ")">>

\* column('user_id').eq(auth.uid())
OwnerCheck == createComparison(T_user_id, "eq", ConditionValue(auth_uid))

Scalars ==
  {NullValue, BooleanValue(TRUE), BooleanValue(FALSE), Undefined, NullProtoObject,
   DateValue(TRUE, T_iso), DateValue(FALSE, <<>>), SQLExpression(T_now),
   ConditionValue(auth_uid), ConditionValue(OwnerCheck)}
  \cup {NumberValue(n) : n \in {-12, 0, 1, 305}}
  \cup {StringValue(s) : s \in Strings}
  \cup {ObjectValue(s) : s \in Strings}

ArrayElems ==
  {NullValue, NumberValue(1), StringValue(<<"a", "'", "b">>), BooleanValue(TRUE),
   Undefined, DateValue(FALSE, <<>>), ArrayValue(<<NullValue>>),
   ArrayValue(<<StringValue(<<"'">>), NumberValue(-12)>>)}

Arrays == {ArrayValue(items) : items \in SeqsUpTo(ArrayElems, MaxArrayLen)}

Values == Scalars \cup Arrays

RenderColumns == {T_user_id, <<"m", ".", "c">>, <<"a", " ", "b">>}

\* A SubqueryBuilder handed to ColumnBuilder.in.
SubqueryValue(b) == [t |-> "subquery", builder |-> b]

JoinDefinition(table, alias, on, type) ==
  [table |-> table, alias |-> alias, on |-> on, type |-> type]

\* column('m.c').eq('p.id')
JoinOn == createComparison(<<"m", ".", "c">>, "eq", StringValue(<<"p", ".", "i", "d">>))

\* A condition whose rendering throws.
ThrowingCond == createComparison(<<"d">>, "lt", DateValue(FALSE, <<>>))

SubqueryDefinitions ==
  {[from |-> f, select |-> sel, alias |-> a, where |-> w, join |-> j] :
     f \in {<<"t">>, <<"a", " ", "b">>},
     sel \in {StringValue(<<"*">>), StringValue(<<"i", "d">>),
              StringValue(<<"p", ".", "i", "d">>),
              ArrayValue(<<StringValue(<<"a">>), StringValue(<<"b", " ">>)>>)},
     a \in {JSUndefined, <<"p">>},
     w \in {NoCondition, OwnerCheck, ThrowingCond},
     j \in {NoJoin,
            JoinDefinition(<<"m">>, JSUndefined, JoinOn, JSUndefined),
            JoinDefinition(<<"m">>, <<"x", "\"">>, JoinOn, <<"l", "e", "f", "t">>),
            JoinDefinition(<<"s">>, <<"m">>, JoinOn, <<"f", "u", "l", "l">>),
            JoinDefinition(<<"m">>, JSUndefined, ThrowingCond, <<"i", "n", "n", "e", "r">>)}}

\* Member policies: two that render, one whose toSQL throws.
MemberPolicies ==
  {[plain |-> Ok(<<"p", "1">>), indexed |-> Ok(<<"i", "1", ";", "\n", "p", "1">>)],
   [plain |-> Ok(<<"p", "2">>), indexed |-> Ok(<<"p", "2">>)],
   [plain |-> Throw("Error"), indexed |-> Throw("Error")]}

PolicyGroups ==
  {createPolicyGroup(<<"g">>, ps, d) :
     ps \in SeqsUpTo(MemberPolicies, MaxPolicies), d \in {JSUndefined, <<"d">>}}

SessionKeys == {<<"a", ".", "b">>, <<"a", "'">>, <<"'">>}
SessionTypes == {"integer", "uuid", "boolean", "timestamp", "text"}

RenderConds ==
  {OwnerCheck, alwaysTrue, auth_uid, currentUser}
  \cup {session_get(k, t) : k \in SessionKeys, t \in SessionTypes}
  \cup {Membership(<<"i", "d">>, "in", SubqueryValue(b)) :
          b \in {SubqueryBuilder(<<"t">>, JSUndefined),
                 [SubqueryBuilder(<<"t">>, <<"p">>) EXCEPT
                    !.select = StringValue(<<"i", "d">>),
                    !.where = OwnerCheck,
                    !.joins = <<JoinDefinition(<<"m">>, JSUndefined, JoinOn,
                                               <<"i", "n", "n", "e", "r">>)>>]}}
  \cup {createComparison(c, o, v) :
          c \in RenderColumns, o \in {"eq", "neq", "gt", "gte", "lt", "lte"},
          v \in {NumberValue(1), StringValue(<<"a", "'">>), DateValue(FALSE, <<>>)}}
  \cup {Pattern(c, o, <<"a", "'">>) : c \in RenderColumns, o \in {"like", "ilike"}}
  \cup {NullCheck(c, v) : c \in RenderColumns, v \in {"null", "not null"}}
  \cup {Membership(c, "in", ArrayValue(<<NumberValue(1), StringValue(<<"'">>)>>)) :
          c \in RenderColumns}
  \cup {Membership(c, "contains", StringValue(<<"a">>)) : c \in RenderColumns}
  \cup {hasRole(<<"a", "'">>, T_user_id), isMemberOf(<<"m">>, <<"a", " ", "b">>, <<"i", "d">>),
        callFunction(<<"f">>, <<StringValue(<<"m", ".", "c">>), ConditionValue(OwnerCheck)>>)}

\* Column references handed to extractTableFromColumn: every short string
\* over the identifier characters, and longer ones with a quoted segment.
ColumnReferences ==
  Identifiers
  \cup {<<"\"", "a", ".", "b", "\"">>, <<"\"", "a", " ", "b", "\"", ".", "c">>,
        <<"\"", "a", ".", "b", "\"", ".", "c">>, <<"\"", "a", "\"", "b", ".", "c">>,
        <<"m", ".", "\"", "a", ".", "b", "\"">>, <<"u", "s", "e", "r", "_", "i", "d">>}

\* Condition trees handed to extractTableReferences and detectMissingJoins:
\* every kind of node, columns with and without a qualifier, a quoted
\* qualifier, a quoted identifier holding a '.', and and/or groups of them.
ReferenceColumns ==
  {<<"m", ".", "c">>, <<"p", ".", "i", "d">>, <<"i", "d">>,
   <<"\"", "a", " ", "b", "\"", ".", "c">>, <<"\"", "a", ".", "b", "\"">>}

ReferenceLeaves ==
  {createComparison(c, "eq", NumberValue(1)) : c \in ReferenceColumns}
  \cup {Pattern(<<"x", ".", "c">>, "like", <<"a">>),
        NullCheck(<<"p", ".", "c">>, "null"),
        Membership(<<"m", ".", "d">>, "in", ArrayValue(<<NumberValue(1)>>)),
        createComparison(<<"i", "d">>, "eq",
                         ConditionValue(NullCheck(<<"y", ".", "c">>, "not null"))),
        createComparison(<<"y", ".", "c">>, "eq",
                         ConditionValue(Pattern(<<"m", ".", "c">>, "ilike", <<"a">>))),
        isMemberOf(<<"x", ".", "t">>, <<"f", "k">>, <<"p", ".", "i", "d">>),
        hasRole(<<"a", ".", "b">>, T_user_id),
        callFunction(<<"f">>, <<StringValue(<<"y", ".", "c">>),
                                ConditionValue(createComparison(<<"m", ".", "c">>, "eq",
                                                                NumberValue(1))),
                                StringValue(<<"p", ".", "c">>)>>),
        alwaysTrue}

ReferenceTrees ==
  ReferenceLeaves
  \cup {chainWith(l, r, op) : l \in ReferenceLeaves, r \in ReferenceLeaves, op \in {"AND", "OR"}}
  \cup {chainWith(chainWith(l, r, "AND"), NullCheck(<<"x", ".", "c">>, "null"), "OR") :
          l \in ReferenceLeaves, r \in ReferenceLeaves}

AvailableSets == {{}, {<<"m">>}, {<<"p">>, <<"m">>}, {<<"x">>, <<"y">>, <<"a", " ", "b">>}}

Calls ==
  {[fn |-> "escapeIdentifier", arg |-> i] : i \in Identifiers}
  \cup {[fn |-> "extractTableReferences", arg |-> c] : c \in ReferenceTrees}
  \cup {[fn |-> "detectMissingJoins", arg |-> c, available |-> a] :
          c \in ReferenceTrees \cup {NoCondition}, a \in AvailableSets}
  \cup {[fn |-> "extractTableFromColumn", arg |-> r] : r \in ColumnReferences}
  \cup {[fn |-> "escapeValue", arg |-> v] : v \in Values}
  \cup {[fn |-> "toSQL", arg |-> c] : c \in RenderConds}
  \cup {[fn |-> "subqueryToSQL", arg |-> d] : d \in SubqueryDefinitions}
  \cup {[fn |-> "policyGroupToSQL", arg |-> g, options |-> [includeIndexes |-> b]] :
          g \in PolicyGroups, b \in BOOLEAN}

NoCall == [fn |-> "none"]
NotCalled == [called |-> FALSE]
NotChained == [ab |-> NoCondition, abc |-> NoCondition, bc |-> NoCondition, a_bc |-> NoCondition]
NoBuilder == [built |-> FALSE]
NoBuilderCall == [op |-> "none"]

RenderIdle == call = NoCall /\ result = NotCalled
ChainIdle ==
  /\ opA = NoCondition /\ opB = NoCondition /\ opC = NoCondition
  /\ chained = NotChained
BuilderIdle == sb = NoBuilder /\ last = NoBuilderCall
HeapIdle == heap = <<>> /\ chains = <<>>
NoPolicy == [created |-> FALSE]
NotRendered == [rendered |-> FALSE]
PolicyIdle == policy = NoPolicy /\ rendered = NotRendered
NotShown == [shown |-> FALSE]
MemberIdle == member = NoCondition /\ shown = NotShown

chainVars == <<opA, opB, opC, chained>>
builderVars == <<sb, last>>
renderVars == <<call, result>>
heapVars == <<heap, chains>>
policyVars == <<policy, rendered>>
memberVars == <<member, shown>>

----------------------------------------------------------------------------
(* Rendering: one call of escapeIdentifier, escapeValue or a condition's   *)
(* toSQL on an input drawn at the start.                                   *)

InitRender ==
  /\ call \in Calls /\ result = NotCalled
  /\ ChainIdle /\ BuilderIdle /\ HeapIdle /\ PolicyIdle /\ MemberIdle

CallEscapeIdentifier ==
  /\ call.fn = "escapeIdentifier" /\ result = NotCalled
  /\ result' = Ok(escapeIdentifier(call.arg))
  /\ UNCHANGED <<call, chainVars, builderVars, heapVars, policyVars, memberVars>>

CallEscapeValue ==
  /\ call.fn = "escapeValue" /\ result = NotCalled
  /\ result' = escapeValue(call.arg)
  /\ UNCHANGED <<call, chainVars, builderVars, heapVars, policyVars, memberVars>>

CallToSQL ==
  /\ call.fn = "toSQL" /\ result = NotCalled
  /\ result' = toSQL(call.arg)
  /\ UNCHANGED <<call, chainVars, builderVars, heapVars, policyVars, memberVars>>

CallSubqueryToSQL ==
  /\ call.fn = "subqueryToSQL" /\ result = NotCalled
  /\ result' = subqueryToSQL(call.arg)
  /\ UNCHANGED <<call, chainVars, builderVars, heapVars, policyVars, memberVars>>

CallPolicyGroupToSQL ==
  /\ call.fn = "policyGroupToSQL" /\ result = NotCalled
  /\ result' = policyGroupToSQL(call.arg, call.options)
  /\ UNCHANGED <<call, chainVars, builderVars, heapVars, policyVars, memberVars>>

CallExtractTableFromColumn ==
  /\ call.fn = "extractTableFromColumn" /\ result = NotCalled
  /\ result' = Ok(extractTableFromColumn(call.arg))
  /\ UNCHANGED <<call, chainVars, builderVars, heapVars, policyVars, memberVars>>

CallExtractTableReferences ==
  /\ call.fn = "extractTableReferences" /\ result = NotCalled
  /\ result' = Ok(extractTableReferences(call.arg))
  /\ UNCHANGED <<call, chainVars, builderVars, heapVars, policyVars, memberVars>>

CallDetectMissingJoins ==
  /\ call.fn = "detectMissingJoins" /\ result = NotCalled
  /\ result' = Ok(detectMissingJoins(call.arg, call.available))
  /\ UNCHANGED <<call, chainVars, builderVars, heapVars, policyVars, memberVars>>

NextRender ==
  \/ CallEscapeIdentifier \/ CallEscapeValue \/ CallToSQL \/ CallSubqueryToSQL
  \/ CallPolicyGroupToSQL \/ CallExtractTableFromColumn
  \/ CallExtractTableReferences \/ CallDetectMissingJoins

SpecRender == InitRender /\ [][NextRender]_vars

Returned == result # NotCalled

----------------------------------------------------------------------------
(* Reading rendered text back: what a SQL lexer makes of a quoted token.   *)

RECURSIVE QuotesPaired(_, _)
RECURSIVE Undouble(_, _)
RECURSIVE ParseDigits(_)
RECURSIVE C8_ElementRendered(_)

\* Every occurrence of the quote character q in s is one of a doubled pair.
QuotesPaired(s, q) ==
  IF s = <<>> THEN TRUE
  ELSE IF Head(s) # q THEN QuotesPaired(Tail(s), q)
  ELSE Len(s) >= 2 /\ s[2] = q /\ QuotesPaired(Tail(Tail(s)), q)

\* s with every doubled q read as one q (s has its quotes paired).
Undouble(s, q) ==
  IF s = <<>> THEN <<>>
  ELSE IF Head(s) # q THEN <<Head(s)>> \o Undouble(Tail(s), q)
  ELSE <<q>> \o Undouble(Tail(Tail(s)), q)

Inner(text) == SubSeq(text, 2, Len(text) - 1)

\* text is exactly one token delimited by q.
IsQuotedToken(text, q) ==
  /\ Len(text) >= 2
  /\ text[1] = q /\ text[Len(text)] = q
  /\ QuotesPaired(Inner(text), q)

\* text is one q-delimited token that reads back as content.
IsQuotedTokenOf(text, q, content) ==
  IsQuotedToken(text, q) /\ Undouble(Inner(text), q) = content

DigitValue(c) ==
  CASE c = "0" -> 0 [] c = "1" -> 1 [] c = "2" -> 2 [] c = "3" -> 3 [] c = "4" -> 4
    [] c = "5" -> 5 [] c = "6" -> 6 [] c = "7" -> 7 [] c = "8" -> 8 [] c = "9" -> 9

ParseDigits(s) ==
  IF Len(s) = 1 THEN DigitValue(s[1])
  ELSE 10 * ParseDigits(SubSeq(s, 1, Len(s) - 1)) + DigitValue(s[Len(s)])

\* text is the decimal text of the integer n.
IsDecimalOf(text, n) ==
  LET digits == IF n < 0 THEN Tail(text) ELSE text
  IN /\ text # <<>>
     /\ (n < 0) = (Head(text) = "-")
     /\ digits # <<>>
     /\ \A i \in 1..Len(digits) : digits[i] \in DigitChars
     /\ (Len(digits) > 1 => digits[1] # "0")
     /\ (IF n < 0 THEN -ParseDigits(digits) ELSE ParseDigits(digits)) = n

----------------------------------------------------------------------------
(* C6: column('user_id').eq(auth.uid()) renders to "user_id" = auth.uid(),  *)
(* the column identifier double-quoted.                                    *)

T_C6_quoted ==
  <<"\"", "u", "s", "e", "r", "_", "i", "d", "\"", " ", "=", " ", "a", "u",
    "t", "h", ".", "u", "i", "d", "(", ")">>

C6_OwnerCheckRendersQuoted ==
  (call = [fn |-> "toSQL", arg |-> OwnerCheck] /\ Returned) => result = Ok(T_C6_quoted)

----------------------------------------------------------------------------
(* C7: escapeIdentifier(name) returns name unchanged exactly when name     *)
(* matches [A-Za-z0-9_]+, and for every other input, the empty string      *)
(* included, the name in double quotes with embedded double quotes doubled. *)

MatchesSafeName(name) ==
  /\ Len(name) >= 1
  /\ \A i \in 1..Len(name) :
       name[i] \in LowerCase \cup UpperCase \cup DigitChars \cup {"_"}

C7_EscapeIdentifierContract ==
  (call.fn = "escapeIdentifier" /\ Returned) =>
    /\ ~result.threw
    /\ IF MatchesSafeName(call.arg) THEN result.text = call.arg
       ELSE IsQuotedTokenOf(result.text, "\"", call.arg)

----------------------------------------------------------------------------
(* C8: escapeValue of a sequence renders ARRAY[e1, e2, ...], each ei the   *)
(* rendering of the i-th element in order, joined by ", ": null as NULL,   *)
(* a number as its decimal text, a string single-quoted with embedded      *)
(* single quotes doubled, a nested sequence recursively.                   *)

IsPlain(v) == v.t \in {"null", "number", "string", "array"}

\* The rendering of a null, number, string or sequence of such is as C8 says.
C8_ElementRendered(v) ==
  LET r == escapeValue(v)
  IN /\ ~r.threw
     /\ CASE v.t = "null" -> r.text = <<"N", "U", "L", "L">>
          [] v.t = "number" -> IsDecimalOf(r.text, v.n)
          [] v.t = "string" -> IsQuotedTokenOf(r.text, "'", v.s)
          [] v.t = "array" ->
               /\ r.text = <<"A", "R", "R", "A", "Y", "[">>
                           \o Join([i \in 1..Len(v.items) |-> escapeValue(v.items[i]).text],
                                   <<",", " ">>)
                           \o <<"]">>
               /\ \A i \in 1..Len(v.items) : IsPlain(v.items[i]) => C8_ElementRendered(v.items[i])
          [] OTHER -> TRUE

C8_ArrayRendering ==
  (/\ call.fn = "escapeValue" /\ Returned
   /\ call.arg.t = "array"
   /\ \A i \in 1..Len(call.arg.items) : ~escapeValue(call.arg.items[i]).threw) =>
    /\ ~result.threw
    /\ result.text = <<"A", "R", "R", "A", "Y", "[">>
                     \o Join([i \in 1..Len(call.arg.items) |->
                                escapeValue(call.arg.items[i]).text], <<",", " ">>)
                     \o <<"]">>
    /\ \A i \in 1..Len(call.arg.items) :
         IsPlain(call.arg.items[i]) => C8_ElementRendered(call.arg.items[i])

\* escapeValue(["a'b", 1, null]) has returned ARRAY['a''b', 1, NULL].
C8_ExampleRendered ==
  /\ call = [fn |-> "escapeValue",
             arg |-> ArrayValue(<<StringValue(<<"a", "'", "b">>), NumberValue(1), NullValue>>)]
  /\ result = Ok(<<"A", "R", "R", "A", "Y", "[", "'", "a", "'", "'", "b", "'", ",", " ",
                   "1", ",", " ", "N", "U", "L", "L", "]">>)

----------------------------------------------------------------------------
(* C9: for a value that is not null, a boolean, a number, a timestamp, a   *)
(* sequence, raw SQL or a condition, what escapeValue returns is a         *)
(* single-quote-delimited literal with every embedded single quote         *)
(* doubled: for strings and for the shapes that reach the fallback.        *)

C9_OtherValuesAreSafeLiterals ==
  (/\ call.fn = "escapeValue" /\ Returned
   /\ call.arg.t \in {"string", "undefined", "object", "nullproto"}
   /\ ~result.threw) =>
    IsQuotedToken(result.text, "'")

----------------------------------------------------------------------------
(* C10: escapeValue never throws, whatever value it is given.              *)

C10_EscapeValueNeverThrows ==
  (call.fn = "escapeValue" /\ Returned) => ~result.threw

----------------------------------------------------------------------------
(* C11: every caller-supplied string that appears in rendered SQL has      *)
(* passed through escapeIdentifier or escapeValue: the key of a session    *)
(* leaf, a pattern string and the role of hasRole are rendered as          *)
(* single-quoted literals with their embedded single quotes doubled.       *)

\* text is prefix, then one single-quoted token reading back as content,
\* then suffix.
IsLiteralBetween(text, prefix, content, suffix) ==
  LET n == Len(text) - Len(prefix) - Len(suffix)
  IN /\ n >= 2
     /\ SubSeq(text, 1, Len(prefix)) = prefix
     /\ SubSeq(text, Len(text) - Len(suffix) + 1, Len(text)) = suffix
     /\ IsQuotedTokenOf(SubSeq(text, Len(prefix) + 1, Len(prefix) + n), "'", content)

C11_StringsAreEscaped ==
  (call.fn = "toSQL" /\ Returned /\ ~result.threw) =>
    /\ (call.arg.type = "context" /\ call.arg.contextType = "session") =>
         IsLiteralBetween(result.text,
                          <<"c", "u", "r", "r", "e", "n", "t", "_", "s", "e", "t", "t",
                            "i", "n", "g", "(">>,
                          call.arg.key,
                          <<",", " ", "t", "r", "u", "e", ")">> \o typeCast(call.arg.sessionType))
    /\ call.arg.type = "pattern" =>
         IsLiteralBetween(result.text,
                          escapeIdentifier(call.arg.column)
                          \o (IF call.arg.operator = "like"
                              THEN <<" ", "L", "I", "K", "E", " ">>
                              ELSE <<" ", "I", "L", "I", "K", "E", " ">>),
                          call.arg.pattern, <<>>)
    /\ (call.arg.type = "helper" /\ call.arg.helperType = "hasRole") =>
         \E k \in 1..Len(result.text) :
           IsLiteralBetween(result.text, SubSeq(result.text, 1, k),
                            ParamOf(call.arg, "role"),
                            <<"\n", " ", " ", " ", " ", " ", " ", ")">>)

----------------------------------------------------------------------------
(* C12: rendering a SubqueryDefinition gives                               *)
(* (SELECT <cols> FROM <table>[ <alias>][ <KIND> JOIN <table>[ <alias>] ON *)
(* <on>][ WHERE <cond>]) inside exactly one outer pair of parentheses: the *)
(* JOIN part is there iff a join is defined, the WHERE part iff a          *)
(* where-condition is defined, and the join kind defaults to INNER.        *)

RECURSIVE ParenDepth(_)

\* The number of parentheses left open at the end of text.
ParenDepth(text) ==
  IF text = <<>> THEN 0
  ELSE ParenDepth(SubSeq(text, 1, Len(text) - 1))
       + (CASE text[Len(text)] = "(" -> 1 [] text[Len(text)] = ")" -> -1 [] OTHER -> 0)

\* The first character of text opens a parenthesis that its last one closes.
InOneOuterPair(text) ==
  /\ Len(text) >= 2 /\ text[1] = "(" /\ text[Len(text)] = ")"
  /\ \A k \in 1..(Len(text) - 1) : ParenDepth(SubSeq(text, 1, k)) > 0
  /\ ParenDepth(text) = 0

C12_JoinKind(type) ==
  CASE type = JSUndefined -> <<"I", "N", "N", "E", "R">>
    [] type = <<"i", "n", "n", "e", "r">> -> <<"I", "N", "N", "E", "R">>
    [] type = <<"l", "e", "f", "t">> -> <<"L", "E", "F", "T">>
    [] type = <<"r", "i", "g", "h", "t">> -> <<"R", "I", "G", "H", "T">>
    [] type = <<"f", "u", "l", "l">> -> <<"F", "U", "L", "L">>

C12_Named(table, alias) ==
  escapeIdentifier(table)
  \o (IF alias = JSUndefined THEN <<>> ELSE <<" ">> \o escapeIdentifier(alias))

C12_Columns(select) ==
  IF select.t = "array"
  THEN Join([i \in 1..Len(select.items) |-> escapeIdentifier(select.items[i].s)],
            <<",", " ">>)
  ELSE escapeIdentifier(select.s)

C12_SubqueryForm ==
  (call.fn = "subqueryToSQL" /\ Returned) =>
    LET d == call.arg
        hasJoin == d.join # NoJoin
        hasWhere == d.where # NoCondition
        partsRender == /\ hasJoin => ~toSQL(d.join.on).threw
                       /\ hasWhere => ~toSQL(d.where).threw
        joinPart == IF hasJoin
                    THEN <<" ">> \o C12_JoinKind(d.join.type) \o <<" ", "J", "O", "I", "N", " ">>
                         \o C12_Named(d.join.table, d.join.alias)
                         \o <<" ", "O", "N", " ">> \o toSQL(d.join.on).text
                    ELSE <<>>
        wherePart == IF hasWhere
                     THEN <<" ", "W", "H", "E", "R", "E", " ">> \o toSQL(d.where).text
                     ELSE <<>>
    IN partsRender =>
         /\ ~result.threw
         /\ result.text = <<"(", "S", "E", "L", "E", "C", "T", " ">> \o C12_Columns(d.select)
                           \o <<" ", "F", "R", "O", "M", " ">> \o C12_Named(d.from, d.alias)
                           \o joinPart \o wherePart \o <<")">>
         /\ InOneOuterPair(result.text)

\* A definition with a join of no stated kind and a where-condition has
\* been rendered, with INNER JOIN and WHERE in it.
C12_JoinAndWhereRendered ==
  /\ call.fn = "subqueryToSQL"
  /\ call.arg.join # NoJoin /\ call.arg.join.type = JSUndefined
  /\ call.arg.where = OwnerCheck
  /\ result = Ok(<<"(", "S", "E", "L", "E", "C", "T", " ", "a", ",", " ", "\"", "b", " ",
                 "\"", " ", "F", "R", "O", "M", " ", "t", " ", "p", " ", "I", "N", "N",
                 "E", "R", " ", "J", "O", "I", "N", " ", "m", " ", "O", "N", " ", "\"",
                 "m", ".", "c", "\"", " ", "=", " ", "'", "p", ".", "i", "d", "'", " ",
                 "W", "H", "E", "R", "E", " ", "u", "s", "e", "r", "_", "i", "d", " ",
                 "=", " ", "a", "u", "t", "h", ".", "u", "i", "d", "(", ")", ")">>)

----------------------------------------------------------------------------
(* C14: policyGroupToSQL(group, options) renders each member's             *)
(* toSQL(options) in list order and joins them with ";\n\n", prefixed by   *)
(* "-- <description>" and a newline when there is a description; it        *)
(* validates nothing itself.                                               *)

C14_MemberTexts ==
  [i \in 1..Len(call.arg.policies) |->
     IF call.options.includeIndexes THEN call.arg.policies[i].indexed
     ELSE call.arg.policies[i].plain]

C14_MembersRender == \A i \in 1..Len(C14_MemberTexts) : ~C14_MemberTexts[i].threw

C14_Prefix ==
  IF call.arg.description = JSUndefined THEN <<>>
  ELSE <<"-", "-", " ">> \o call.arg.description \o <<"\n">>

C14_Joined ==
  Join([i \in 1..Len(C14_MemberTexts) |-> C14_MemberTexts[i].text], <<";", "\n", "\n">>)

\* The claim as stated: the text is the prefix and the joined members.
C14_GroupIsJoinedMembers ==
  (call.fn = "policyGroupToSQL" /\ Returned /\ C14_MembersRender) =>
    /\ ~result.threw
    /\ result.text = C14_Prefix \o C14_Joined

\* The claim with the terminator the code adds: the text is the prefix,
\* the joined members and a final ";".
C14_GroupIsJoinedAndTerminated ==
  (call.fn = "policyGroupToSQL" /\ Returned /\ C14_MembersRender) =>
    /\ ~result.threw
    /\ result.text = C14_Prefix \o C14_Joined \o <<";">>

\* A described group of two different members has been rendered with
\* includeIndexes.
C14_DescribedPairRendered ==
  /\ call.fn = "policyGroupToSQL" /\ call.options.includeIndexes
  /\ call.arg.description = <<"d">>
  /\ Len(call.arg.policies) = 2 /\ call.arg.policies[1] # call.arg.policies[2]
  /\ result = Ok(<<"-", "-", " ", "d", "\n", "i", "1", ";", "\n", "p", "1", ";", "\n", "\n",
                   "p", "2", ";">>)

----------------------------------------------------------------------------
(* Composition: three conditions A, B, C, each built from single-node      *)
(* conditions by and/or calls, are chained as A.op(B).op'(C) and as        *)
(* A.op'(B.op(C)).                                                         *)

RECURSIVE CondsOfSize(_)

\* column('a').eq(1), column('m.c').isNull(), alwaysTrue()
ChainLeaves ==
  {createComparison(<<"a">>, "eq", NumberValue(1)), NullCheck(<<"m", ".", "c">>, "null"),
   alwaysTrue}

LogicalOps == {"AND", "OR"}

\* The conditions and/or calls build from exactly n single-node conditions.
CondsOfSize(n) ==
  IF n = 1 THEN ChainLeaves
  ELSE UNION {{chainWith(x, y, op) : x \in CondsOfSize(k), y \in CondsOfSize(n - k),
                                      op \in LogicalOps} : k \in 1..(n - 1)}

InitChain ==
  /\ \E na \in 1..MaxLeaves, nb \in 1..MaxLeaves, nc \in 1..MaxLeaves :
       /\ na + nb + nc <= MaxLeaves
       /\ opA \in CondsOfSize(na) /\ opB \in CondsOfSize(nb) /\ opC \in CondsOfSize(nc)
  /\ chained = NotChained
  /\ RenderIdle /\ BuilderIdle /\ HeapIdle /\ PolicyIdle /\ MemberIdle

\* ab = A.and(B) or A.or(B)
ChainAB(op) ==
  /\ chained.ab = NoCondition
  /\ chained' = [chained EXCEPT !.ab = chainWith(opA, opB, op)]
  /\ UNCHANGED <<opA, opB, opC, renderVars, builderVars, heapVars, policyVars, memberVars>>

\* abc = ab.and(C) or ab.or(C)
ChainABC(op) ==
  /\ chained.ab # NoCondition /\ chained.abc = NoCondition
  /\ chained' = [chained EXCEPT !.abc = chainWith(chained.ab, opC, op)]
  /\ UNCHANGED <<opA, opB, opC, renderVars, builderVars, heapVars, policyVars, memberVars>>

\* bc = B.and(C) or B.or(C)
ChainBC(op) ==
  /\ chained.bc = NoCondition
  /\ chained' = [chained EXCEPT !.bc = chainWith(opB, opC, op)]
  /\ UNCHANGED <<opA, opB, opC, renderVars, builderVars, heapVars, policyVars, memberVars>>

\* a_bc = A.and(bc) or A.or(bc)
ChainA_BC(op) ==
  /\ chained.bc # NoCondition /\ chained.a_bc = NoCondition
  /\ chained' = [chained EXCEPT !.a_bc = chainWith(opA, chained.bc, op)]
  /\ UNCHANGED <<opA, opB, opC, renderVars, builderVars, heapVars, policyVars, memberVars>>

NextChain ==
  \E op \in LogicalOps : ChainAB(op) \/ ChainABC(op) \/ ChainBC(op) \/ ChainA_BC(op)

SpecChain == InitChain /\ [][NextChain]_vars

IsLogical(c, op) == c.type = "logical" /\ c.operator = op

----------------------------------------------------------------------------
(* C4: for any three conditions A, B, C, A.and(B).and(C) is one logical    *)
(* AND node with exactly three children, not two nested binary nodes, and  *)
(* likewise A.or(B).or(C) with OR.                                         *)

IsTernary(c, op) ==
  /\ IsLogical(c, op)
  /\ Len(c.conditions) = 3
  /\ c.conditions[1] # chained.ab

\* The claim as stated, for any A, B, C.
C4_AnyThreeGiveThreeChildren ==
  \A op \in LogicalOps :
    (IsLogical(chained.ab, op) /\ IsLogical(chained.abc, op)) => IsTernary(chained.abc, op)

\* The claim for A, B, C none of which is itself a logical node of the
\* operator applied.
C4_ThreeChildren ==
  \A op \in LogicalOps :
    (/\ IsLogical(chained.ab, op) /\ IsLogical(chained.abc, op)
     /\ ~IsLogical(opA, op) /\ ~IsLogical(opB, op) /\ ~IsLogical(opC, op)) =>
      IsTernary(chained.abc, op)

\* A.and(B).and(C) has been built from an OR node A and two single nodes.
C4_Chained ==
  /\ IsLogical(opA, "OR") /\ opB \in ChainLeaves /\ opC \in ChainLeaves
  /\ IsLogical(chained.ab, "AND") /\ IsLogical(chained.abc, "AND")
  /\ Len(chained.abc.conditions) = 3

----------------------------------------------------------------------------
(* C5: in every tree and/or calls build from single-node conditions, no    *)
(* logical node has a direct child that is a logical node of the same      *)
(* operator.                                                               *)

RECURSIVE NoSameOperatorChild(_)

NoSameOperatorChild(c) ==
  c.type = "logical" =>
    \A i \in 1..Len(c.conditions) :
      /\ ~IsLogical(c.conditions[i], c.operator)
      /\ NoSameOperatorChild(c.conditions[i])

C5_NoSameOperatorChild ==
  \A c \in {opA, opB, opC, chained.ab, chained.abc, chained.bc, chained.a_bc} :
    NoSameOperatorChild(c)

\* A.and(B) has spliced the AND node B in, and .or(C) has then nested the
\* result as a group of the other operator.
C5_SplicedThenNested ==
  /\ opA \in ChainLeaves /\ IsLogical(opB, "AND")
  /\ IsLogical(chained.ab, "AND") /\ Len(chained.ab.conditions) = 3
  /\ IsLogical(chained.abc, "OR") /\ chained.abc.conditions = <<chained.ab, opC>>

----------------------------------------------------------------------------
(* C19: for all conditions A, B, C and op in {and, or}, (A.op(B)).op(C)    *)
(* and A.op(B.op(C)) are logical nodes of the same operator with the same  *)
(* child sequence, the children of the left operand before those of the    *)
(* right, and so render the same text.                                     *)

\* What an operand contributes to a node of op: its children when it is
\* itself a node of op, else itself.
C19_Contribution(c, op) == IF IsLogical(c, op) THEN c.conditions ELSE <<c>>

C19_Associative ==
  \A op \in LogicalOps :
    (/\ IsLogical(chained.ab, op) /\ IsLogical(chained.abc, op)
     /\ IsLogical(chained.bc, op) /\ IsLogical(chained.a_bc, op)) =>
      /\ chained.abc.operator = chained.a_bc.operator
      /\ chained.abc.conditions = chained.a_bc.conditions
      /\ chained.abc.conditions = C19_Contribution(opA, op) \o C19_Contribution(opB, op)
                                   \o C19_Contribution(opC, op)
      /\ ~toSQL(chained.abc).threw
      /\ toSQL(chained.abc) = toSQL(chained.a_bc)

\* Both groupings have been built with the same operator, B being itself
\* a node of that operator, so that its two children are spliced.
C19_BothGroupingsBuilt ==
  \E op \in LogicalOps :
    /\ IsLogical(opB, op) /\ opA.type # "logical" /\ opC.type # "logical"
    /\ IsLogical(chained.ab, op) /\ IsLogical(chained.abc, op)
    /\ IsLogical(chained.bc, op) /\ IsLogical(chained.a_bc, op)
    /\ Len(chained.abc.conditions) = 4
    /\ chained.abc = chained.a_bc

----------------------------------------------------------------------------
(* C20: extractTableFromColumn(ref) returns the content of a leading       *)
(* double-quoted segment when that segment is immediately followed by      *)
(* '.', else the prefix before the first '.' that lies outside double      *)
(* quotes, and none otherwise; a reference with no qualifier whose only    *)
(* '.' lies inside a double-quoted identifier yields none.                 *)

RECURSIVE C20_FirstUnquotedDot(_, _, _)

\* 0-based index of the first '.' of s at or after i that is outside double
\* quotes, -1 when there is none; inQuote tells whether position i is inside.
C20_FirstUnquotedDot(s, i, inQuote) ==
  IF i >= Len(s) THEN -1
  ELSE IF s[i + 1] = "\"" THEN C20_FirstUnquotedDot(s, i + 1, ~inQuote)
  ELSE IF s[i + 1] = "." /\ ~inQuote THEN i
  ELSE C20_FirstUnquotedDot(s, i + 1, inQuote)

\* The qualifier the reference carries; an empty prefix is no qualifier.
C20_Qualifier(ref) ==
  LET endQuote == IndexOf(ref, "\"", 1)
      dot == C20_FirstUnquotedDot(ref, 0, FALSE)
  IN IF CharAt(ref, 0) = "\"" /\ endQuote > 0 /\ CharAt(ref, endQuote + 1) = "."
     THEN SubSeq(ref, 2, endQuote)
     ELSE IF dot > 0 THEN SubSeq(ref, 1, dot)
     ELSE JSNull

C20_QualifierExtracted ==
  (call.fn = "extractTableFromColumn" /\ Returned) =>
    result = Ok(C20_Qualifier(call.arg))

----------------------------------------------------------------------------
(* Composition with object identity: conditions and their child arrays are *)
(* objects in a heap, a chain wraps the address of its condition, and      *)
(* X.and(Y) / X.or(Y) may take any two chains built so far, X = Y          *)
(* included.                                                               *)

RECURSIVE Deref(_, _)

MaxChainCalls == 2

\* A condition object that is no logical node.
LeafObj(cond) == [kind |-> "node", cond |-> cond]
\* A logical node; conditions is the address of its child array.
LogicalObj(operator, conditions) ==
  [kind |-> "logical", operator |-> operator, conditions |-> conditions]
\* An array of condition addresses.
ArrayObj(items) == [kind |-> "array", items |-> items]

\* leftConditions / rightConditions of flattenConditions: the child array
\* of a node of the same operator, or a one-element array literal.
conditionsOf(h, ref, operator) ==
  IF h[ref].kind = "logical" /\ h[ref].operator = operator
  THEN h[h[ref].conditions].items
  ELSE <<ref>>

\* A bug flattenConditions could have: the right operand's conditions are
\* pushed onto the left operand's own array, which is returned.
flattenInHeap_PushOntoLeft(h, left, right, operator) ==
  IF h[left].kind = "logical" /\ h[left].operator = operator
  THEN [heap |-> [h EXCEPT ![h[left].conditions].items =
                               @ \o conditionsOf(h, right, operator)],
        array |-> h[left].conditions]
  ELSE [heap |-> Append(h, ArrayObj(<<left>> \o conditionsOf(h, right, operator))),
        array |-> Len(h) + 1]

\* flattenConditions: [...leftConditions, ...rightConditions] is a new array.
flattenInHeap(h, left, right, operator) ==
  [heap |-> Append(h, ArrayObj(conditionsOf(h, left, operator)
                               \o conditionsOf(h, right, operator))),
   array |-> Len(h) + 1]

\* chainWith: a new logical node over the flattened array, in a new chain.
chainWithInHeap(h, this, other, operator) ==
  LET flattened == flattenInHeap(h, this, other, operator)
  IN [heap |-> Append(flattened.heap, LogicalObj(operator, flattened.array)),
      condition |-> Len(flattened.heap) + 1]

\* The tree at an address, as a value.
Deref(h, ref) ==
  IF h[ref].kind = "logical"
  THEN [type |-> "logical", operator |-> h[ref].operator,
        conditions |-> [i \in 1..Len(h[h[ref].conditions].items) |->
                          Deref(h, h[h[ref].conditions].items[i])]]
  ELSE h[ref].cond

HeapLeaves ==
  <<createComparison(<<"a">>, "eq", NumberValue(1)), alwaysTrue,
    NullCheck(<<"m", ".", "c">>, "null")>>

InitHeap ==
  /\ heap = [i \in 1..Len(HeapLeaves) |-> LeafObj(HeapLeaves[i])]
  /\ chains = [i \in 1..Len(HeapLeaves) |-> i]
  /\ RenderIdle /\ ChainIdle /\ BuilderIdle /\ PolicyIdle /\ MemberIdle

\* chains[x].and(chains[y])
And(x, y) ==
  LET made == chainWithInHeap(heap, chains[x], chains[y], "AND")
  IN /\ Len(chains) < Len(HeapLeaves) + MaxChainCalls
     /\ heap' = made.heap
     /\ chains' = Append(chains, made.condition)
     /\ UNCHANGED <<renderVars, chainVars, builderVars, policyVars, memberVars>>

\* chains[x].or(chains[y])
Or(x, y) ==
  LET made == chainWithInHeap(heap, chains[x], chains[y], "OR")
  IN /\ Len(chains) < Len(HeapLeaves) + MaxChainCalls
     /\ heap' = made.heap
     /\ chains' = Append(chains, made.condition)
     /\ UNCHANGED <<renderVars, chainVars, builderVars, policyVars, memberVars>>

NextHeap ==
  \/ \E x \in 1..Len(chains), y \in 1..Len(chains) : And(x, y)
  \/ \E x \in 1..Len(chains), y \in 1..Len(chains) : Or(x, y)

SpecHeap == InitHeap /\ [][NextHeap]_vars

----------------------------------------------------------------------------
(* C13: conditions are never mutated after construction: X.and(Y) and      *)
(* X.or(Y) return a new chain and leave the trees of X and Y, and of every *)
(* other chain, as they were: type, operator, child sequence and rendered  *)
(* text.                                                                   *)

C13_OperandsNeverMutated ==
  [][/\ Len(chains') = Len(chains) + 1
     /\ chains'[Len(chains')] \notin 1..Len(heap)
     /\ \A a \in 1..Len(heap) : heap'[a] = heap[a]
     /\ \A i \in 1..Len(chains) :
          /\ chains'[i] = chains[i]
          /\ Deref(heap', chains[i]) = Deref(heap, chains[i])
          /\ toSQL(Deref(heap', chains[i])) = toSQL(Deref(heap, chains[i]))]_heapVars

\* A two-child node X was spliced into a later chain of three or more
\* children, and X still has its two children.
C13_SplicedAndIntact ==
  \E i \in 1..Len(chains), j \in 1..Len(chains) :
    /\ i < j
    /\ heap[chains[i]].kind = "logical" /\ heap[chains[j]].kind = "logical"
    /\ heap[chains[i]].operator = heap[chains[j]].operator
    /\ Len(heap[heap[chains[i]].conditions].items) = 2
    /\ Len(heap[heap[chains[j]].conditions].items) >= 3
    /\ SubSeq(heap[heap[chains[j]].conditions].items, 1, 2)
         = heap[heap[chains[i]].conditions].items

----------------------------------------------------------------------------
(* The subquery builder: from(table, alias), then any sequence of select,  *)
(* where, join and toSubquery calls.                                       *)

Col(qualifier, name) == qualifier \o <<".">> \o name

\* column('m.col').eq(1)
MCol == createComparison(Col(<<"m">>, <<"c", "o", "l">>), "eq", NumberValue(1))

WhereConds ==
  {OwnerCheck,
   MCol,
   NullCheck(Col(<<"p">>, <<"i", "d">>), "null"),
   Pattern(Col(<<"t">>, <<"c">>), "like", <<"a">>),
   chainWith(MCol, NullCheck(Col(<<"x">>, <<"c">>), "null"), "AND"),
   chainWith(chainWith(Pattern(Col(<<"x">>, <<"c">>), "ilike", <<"a">>), MCol, "OR"),
             NullCheck(Col(<<"x">>, <<"d">>), "not null"), "OR"),
   callFunction(<<"f">>, <<StringValue(Col(<<"y">>, <<"c">>)), ConditionValue(MCol)>>),
   createComparison(<<"a">>, "eq",
                    ConditionValue(Membership(Col(<<"m">>, <<"c">>), "in",
                                              ArrayValue(<<NumberValue(1)>>)))),
   isMemberOf(Col(<<"x">>, <<"t">>), <<"f", "k">>, <<"i", "d">>)}

JoinCall(table, on, type, alias) == [table |-> table, on |-> on, type |-> type, alias |-> alias]

JoinCalls ==
  {JoinCall(<<"m">>,
            createComparison(Col(<<"m">>, <<"c">>), "eq", StringValue(Col(<<"p">>, <<"i", "d">>))),
            JSUndefined, JSUndefined),
   JoinCall(<<"s">>,
            chainWith(MCol, NullCheck(Col(<<"p">>, <<"i", "d">>), "not null"), "AND"),
            <<"l", "e", "f", "t">>, <<"m">>),
   JoinCall(<<"x">>,
            chainWith(NullCheck(Col(<<"x">>, <<"c">>), "null"), MCol, "AND"),
            JSUndefined, JSUndefined),
   JoinCall(<<"m">>,
            chainWith(chainWith(MCol, NullCheck(Col(<<"y">>, <<"c">>), "null"), "AND"),
                      NullCheck(Col(<<"x">>, <<"c">>), "null"), "AND"),
            <<"i", "n", "n", "e", "r">>, JSUndefined),
   JoinCall(<<"x">>, OwnerCheck, <<"r", "i", "g", "h", "t">>, <<"y">>),
   JoinCall(<<"s">>, NullCheck(Col(<<"s">>, <<"c">>), "null"), JSUndefined, <<"m">>)}

SelectColumns ==
  {StringValue(Col(<<"p">>, <<"i", "d">>)),
   ArrayValue(<<StringValue(<<"a">>), StringValue(<<"b">>)>>)}

T_inner == <<"i", "n", "n", "e", "r">>

InitBuilder ==
  /\ \E alias \in {JSUndefined, <<"p">>} : sb = SubqueryBuilder(<<"t">>, alias)
  /\ last = NoBuilderCall
  /\ RenderIdle /\ ChainIdle /\ HeapIdle /\ PolicyIdle /\ MemberIdle

\* select(columns)
Select(columns) ==
  /\ sb' = [sb EXCEPT !.select = columns]
  /\ last' = [op |-> "select"]
  /\ UNCHANGED <<renderVars, chainVars, heapVars, policyVars, memberVars>>

\* A bug where() could have: the condition is stored before it is validated.
Where_StoreFirst(condition) ==
  LET v == validateTableReferences(condition, sb.from, sb.fromAlias, sb.joins, JSUndefined)
  IN /\ sb' = [sb EXCEPT !.where = condition]
     /\ last' = [op |-> "where", condition |-> condition, threw |-> v.threw,
                 message |-> IF v.threw THEN v.error ELSE <<>>]
     /\ UNCHANGED <<renderVars, chainVars, heapVars, policyVars, memberVars>>

\* where(condition)
Where(condition) ==
  LET v == validateTableReferences(condition, sb.from, sb.fromAlias, sb.joins, JSUndefined)
  IN /\ sb' = IF v.threw THEN sb ELSE [sb EXCEPT !.where = condition]
     /\ last' = [op |-> "where", condition |-> condition, threw |-> v.threw,
                 message |-> IF v.threw THEN v.error ELSE <<>>]
     /\ UNCHANGED <<renderVars, chainVars, heapVars, policyVars, memberVars>>

\* join(table, on, type, alias)
JoinTable(j) ==
  LET v == validateTableReferences(j.on, sb.from, sb.fromAlias, sb.joins,
                                   IF Truthy(j.alias) THEN j.alias ELSE j.table)
      pushed == [table |-> j.table, alias |-> j.alias, on |-> j.on,
                 type |-> IF Truthy(j.type) THEN j.type ELSE T_inner]
  IN /\ Len(sb.joins) < MaxJoins
     /\ sb' = IF v.threw THEN sb ELSE [sb EXCEPT !.joins = Append(@, pushed)]
     /\ last' = [op |-> "join", table |-> j.table, alias |-> j.alias, on |-> j.on,
                 threw |-> v.threw, message |-> IF v.threw THEN v.error ELSE <<>>]
     /\ UNCHANGED <<renderVars, chainVars, heapVars, policyVars, memberVars>>

\* toSubquery()
ToSubquery ==
  /\ last' = [op |-> "toSubquery", definition |-> toSubquery(sb)]
  /\ UNCHANGED <<sb, renderVars, chainVars, heapVars, policyVars, memberVars>>

Next ==
  \/ \E columns \in SelectColumns : Select(columns)
  \/ \E condition \in WhereConds : Where(condition)
  \/ \E j \in JoinCalls : JoinTable(j)
  \/ ToSubquery

Spec == InitBuilder /\ [][Next]_vars

----------------------------------------------------------------------------
(* A membership condition over the builder: column(c).in(builder) at any   *)
(* moment of the builder's life, toSQL() of the condition any number of    *)
(* times, and select, where and join calls on the builder in between.      *)

MemberColumns == {<<"i", "d">>, <<"a", " ", "b">>}
MemberSelects == {StringValue(<<"i", "d">>), ArrayValue(<<StringValue(<<"a">>), StringValue(<<"b">>)>>)}
MemberJoins == {JoinCall(<<"m">>, MCol, <<"l", "e", "f", "t">>, JSUndefined)}

\* The builder object as the condition's closure holds it: a reference.
TheBuilder == [t |-> "subquery", builder |-> "this"]

\* toSQL() of the condition: `values.toSubquery()` reads the builder's
\* fields as they are at the call.
MemberSQL == toSQL([member EXCEPT !.value = SubqueryValue(sb)])

InitMember ==
  /\ \E alias \in {JSUndefined, <<"p">>} : sb = SubqueryBuilder(<<"t">>, alias)
  /\ last = NoBuilderCall
  /\ MemberIdle
  /\ RenderIdle /\ ChainIdle /\ HeapIdle /\ PolicyIdle

\* column(c).in(builder)
In(c) ==
  /\ member = NoCondition
  /\ member' = Membership(c, "in", TheBuilder)
  /\ UNCHANGED <<shown, builderVars, renderVars, chainVars, heapVars, policyVars>>

\* condition.toSQL()
MemberToSQL ==
  /\ member # NoCondition
  /\ shown' = [shown |-> TRUE,
               first |-> IF shown = NotShown THEN MemberSQL ELSE shown.first,
               latest |-> MemberSQL]
  /\ UNCHANGED <<member, builderVars, renderVars, chainVars, heapVars, policyVars>>

NextMember ==
  \/ \E c \in MemberColumns : In(c)
  \/ MemberToSQL
  \/ \E columns \in MemberSelects : Select(columns)
  \/ Where(OwnerCheck)
  \/ \E j \in MemberJoins : JoinTable(j)

SpecMember == InitMember /\ [][NextMember]_vars

----------------------------------------------------------------------------
(* What a condition refers to, read off the tree (for the claims below).   *)

RECURSIVE ColumnRefs(_)
RECURSIVE ColumnRefsOfAll(_)

\* The names the builder calls above use for tables and aliases.
TableNames == {<<"t">>, <<"p">>, <<"m">>, <<"x">>, <<"y">>, <<"s">>}

\* The column references of a tree, depth first, left to right.
ColumnRefs(c) ==
  CASE c.type \in {"pattern", "null", "membership"} -> <<c.column>>
    [] c.type = "comparison" ->
         <<c.column>> \o (IF c.value.t = "condition" THEN ColumnRefs(c.value.cond) ELSE <<>>)
    [] c.type = "logical" -> ColumnRefsOfAll(c.conditions)
    [] c.type = "helper" -> [i \in 1..Len(c.params) |-> c.params[i].v]
    [] c.type = "function" ->
         ColumnRefsOfAll([i \in 1..Len(c.arguments) |->
                            IF c.arguments[i].t = "string"
                            THEN NullCheck(c.arguments[i].s, "null")
                            ELSE c.arguments[i].cond])
    [] OTHER -> <<>>

ColumnRefsOfAll(cs) ==
  IF cs = <<>> THEN <<>> ELSE ColumnRefs(Head(cs)) \o ColumnRefsOfAll(Tail(cs))

\* ref is q.<column> for the table name q.
Qualifies(q, ref) ==
  Len(ref) > Len(q) /\ SubSeq(ref, 1, Len(q)) = q /\ ref[Len(q) + 1] = "."

Referenced(c) ==
  {q \in TableNames : \E i \in DOMAIN ColumnRefs(c) : Qualifies(q, ColumnRefs(c)[i])}

\* The first table of the set missing that c refers to, reading c in order.
FirstOf(c, missing) ==
  LET refs == ColumnRefs(c)
      hit(i) == \E q \in missing : Qualifies(q, refs[i])
      first == CHOOSE i \in DOMAIN refs : hit(i) /\ \A j \in 1..(i - 1) : ~hit(j)
  IN CHOOSE q \in missing : Qualifies(q, refs[first])

NameOf(table, alias) == IF alias # JSUndefined THEN alias ELSE table

\* The tables a clause may refer to: the from-scope and the given joins.
Scope(b, joins) ==
  {NameOf(b.from, b.fromAlias)} \cup {NameOf(joins[i].table, joins[i].alias) : i \in DOMAIN joins}

\* The ways of listing the members of a set, each once.
Orderings(S) ==
  {f \in [1..Cardinality(S) -> S] : \A i, j \in 1..Cardinality(S) : i # j => f[i] # f[j]}

----------------------------------------------------------------------------
(* C1: where(c) with c referring to a table that is neither the from-scope *)
(* nor a declared join fails at once, with an error that names every       *)
(* missing table and suggests .join('<first missing table>', ...).         *)

C1_WhereScopeError ==
  last.op = "where" =>
    LET missing == Referenced(last.condition) \ Scope(sb, sb.joins)
    IN missing # {} =>
         /\ last.threw
         /\ \E names \in Orderings(missing) :
              /\ names[1] = FirstOf(last.condition, missing)
              /\ last.message =
                   <<"M", "i", "s", "s", "i", "n", "g", " ", "j", "o", "i", "n", "(", "s",
                     ")", " ", "f", "o", "r", " ", "t", "a", "b", "l", "e", "(", "s", ")",
                     ":", " ">>
                   \o Join(names, <<",", " ">>)
                   \o <<".", " ", "A", "d", "d", " ", "a", " ", "j", "o", "i", "n", " ", "u",
                        "s", "i", "n", "g", " ", ".", "j", "o", "i", "n", "(", "'">>
                   \o names[1]
                   \o <<"'", ",", " ", ".", ".", ".", ")", " ", "b", "e", "f", "o", "r", "e",
                        " ", "c", "a", "l", "l", "i", "n", "g", " ", ".", "w", "h", "e", "r",
                        "e", "(", ")">>

\* A where-clause referring to two missing tables has been refused.
C1_TwoMissing ==
  /\ last.op = "where" /\ last.threw
  /\ Cardinality(Referenced(last.condition) \ Scope(sb, sb.joins)) >= 2

----------------------------------------------------------------------------
(* C2: a builder accepts at most one join; after one successful join any   *)
(* further join call is rejected with an error.                            *)

C2_SecondJoinRejected ==
  (last.op = "join" /\ ~last.threw) => Len(sb.joins) = 1

----------------------------------------------------------------------------
(* C3: join validates its ON-condition against the tables available       *)
(* before the join is added: a reference to the table the join introduces  *)
(* (its alias, or its table name when unaliased) is accepted, a reference  *)
(* to any other unavailable table makes join fail, naming those tables.    *)

\* The joins declared before the last call, which was a join.
JoinsBefore == IF last.threw THEN sb.joins ELSE SubSeq(sb.joins, 1, Len(sb.joins) - 1)

C3_JoinOnValidated ==
  last.op = "join" =>
    LET self == NameOf(last.table, last.alias)
        others == Referenced(last.on) \ (Scope(sb, JoinsBefore) \cup {self})
    IN /\ last.threw <=> others # {}
       /\ last.threw =>
            \E names \in Orderings(others) :
              last.message =
                <<"J", "o", "i", "n", " ", "c", "o", "n", "d", "i", "t", "i", "o", "n",
                  " ", "r", "e", "f", "e", "r", "e", "n", "c", "e", "s", " ", "u", "n",
                  "a", "v", "a", "i", "l", "a", "b", "l", "e", " ", "t", "a", "b", "l",
                  "e", "(", "s", ")", ":", " ">>
                \o Join(names, <<",", " ">>)

\* A join whose ON-condition refers to itself and to an unavailable table
\* has been refused.
C3_SelfAndOther ==
  /\ last.op = "join" /\ last.threw
  /\ NameOf(last.table, last.alias) \in Referenced(last.on)

----------------------------------------------------------------------------
(* C18: where(c) is validated against the from-scope and the joins         *)
(* declared at the moment of the call: a condition on a joined table's     *)
(* alias is accepted after the join() and rejected before it, whatever     *)
(* joins come later.                                                       *)

C18_WhereSeesDeclaredJoins ==
  [][/\ \A c \in WhereConds :
          Where(c) =>
            /\ last'.threw <=> Referenced(c) \ Scope(sb, sb.joins) # {}
            /\ sb'.where = IF last'.threw THEN sb.where ELSE c
            /\ sb'.joins = sb.joins
     /\ \A j \in JoinCalls : JoinTable(j) => sb'.where = sb.where]_vars

\* where() on a column of the alias m has been accepted after a join
\* declared that alias.
C18_AcceptedAfterJoin ==
  /\ last.op = "where" /\ ~last.threw
  /\ <<"m">> \in Referenced(last.condition)
  /\ \E i \in DOMAIN sb.joins : sb.joins[i].alias = <<"m">>
  /\ sb.where = last.condition

----------------------------------------------------------------------------
(* C22: a subquery built with from(table) and no select(...) call selects  *)
(* the default '*': its rendering begins with (SELECT * FROM <table>, the  *)
(* star being the SQL wildcard and not a quoted identifier.  (No select    *)
(* call of the model passes '*', so the builder's select is '*' exactly    *)
(* when select was never called.)                                          *)

C22_StarPrefix == <<"(">> \o T_SELECT \o <<"*">> \o T_FROM

C22_DefaultSelectIsWildcard ==
  [][(MemberToSQL /\ sb.select = StringValue(<<"*">>)) =>
       /\ ~shown'.latest.threw
       /\ LET prefix == escapeIdentifier(member.column) \o <<" ", "I", "N", " ">>
                         \o C22_StarPrefix \o escapeIdentifier(sb.from)
          IN /\ Len(shown'.latest.text) >= Len(prefix)
             /\ SubSeq(shown'.latest.text, 1, Len(prefix)) = prefix]_vars

----------------------------------------------------------------------------
(* C25: a membership condition built by column(c).in(subqueryBuilder)      *)
(* renders the same text on every toSQL() call: select, join and where     *)
(* calls made on the builder after the condition was built do not change   *)
(* the text.                                                               *)

C25_SameTextOnEveryCall ==
  shown # NotShown => shown.latest = shown.first

----------------------------------------------------------------------------
(* C23: a where() or join() call that throws a scope error leaves the      *)
(* builder unchanged: the where-condition is not replaced and no join is   *)
(* added, so toSubquery() returns afterwards what it would have returned   *)
(* immediately before the failed call.                                     *)

C23_FailedCallChangesNothing ==
  [][(last'.op \in {"where", "join"} /\ last'.threw) =>
       /\ sb'.where = sb.where
       /\ sb'.joins = sb.joins
       /\ sb' = sb
       /\ toSubquery(sb') = toSubquery(sb)]_vars

\* A call has been refused on a builder that held a where-condition and a
\* join already, and it holds them still.
C23_RefusedOnFilledBuilder ==
  /\ last.op \in {"where", "join"} /\ last.threw
  /\ sb.where # NoCondition /\ Len(sb.joins) = 1
  /\ toSubquery(sb).where = sb.where /\ toSubquery(sb).join # NoJoin

----------------------------------------------------------------------------
(* C24: in every SubqueryDefinition toSubquery() returns, each table       *)
(* qualifier the where-condition refers to is the from-scope (the alias,   *)
(* or the table name when there is no alias) or the alias-or-table of the  *)
(* one join the definition holds.                                          *)

\* The tables a definition declares.
C24_Declared(d) ==
  {NameOf(d.from, d.alias)}
  \cup (IF d.join # NoJoin THEN {NameOf(d.join.table, d.join.alias)} ELSE {})

C24_WhereWithinDefinition ==
  (last.op = "toSubquery" /\ last.definition.where # NoCondition) =>
    Referenced(last.definition.where) \subseteq C24_Declared(last.definition)

----------------------------------------------------------------------------
(* C21: extractTableReferences(tree) returns exactly the qualifiers found, *)
(* in depth-first first-seen order, on every comparison, pattern,          *)
(* null-check and membership column, inside conditions used as comparison  *)
(* values, inside all children of logical nodes, in the string parameters  *)
(* of helper nodes and in the string or condition arguments of function    *)
(* nodes; detectMissingJoins(tree, available) returns those not in         *)
(* available, in that order, and the empty list when there is no           *)
(* condition.                                                              *)

RECURSIVE C21_FirstSeen(_, _)

\* The members of s in order, each kept at its first occurrence only.
C21_FirstSeen(s, seen) ==
  IF s = <<>> THEN <<>>
  ELSE IF Head(s) \in seen THEN C21_FirstSeen(Tail(s), seen)
  ELSE <<Head(s)>> \o C21_FirstSeen(Tail(s), seen \cup {Head(s)})

\* The qualifiers of the references of a tree, read depth first.
C21_Qualifiers(c) ==
  LET refs == ColumnRefs(c)
      present == SelectSeq(refs, LAMBDA r : Truthy(r))
      quals == [i \in 1..Len(present) |-> C20_Qualifier(present[i])]
  IN C21_FirstSeen(SelectSeq(quals, LAMBDA q : Truthy(q)), {})

C21_ReferencesAndMissing ==
  /\ (call.fn = "extractTableReferences" /\ Returned) =>
       result = Ok(C21_Qualifiers(call.arg))
  /\ (call.fn = "detectMissingJoins" /\ Returned) =>
       result = Ok(IF call.arg = NoCondition THEN <<>>
                   ELSE SelectSeq(C21_Qualifiers(call.arg),
                                  LAMBDA q : q \notin call.available))

----------------------------------------------------------------------------
(* C26: for a column reference alias.column whose two parts match          *)
(* [A-Za-z0-9_]+, the text of a comparison, pattern, membership or         *)
(* null-check on it, and of a subquery select list naming it, keeps the    *)
(* alias as a qualifier of the column (alias.column or "alias"."column")   *)
(* and is never the whole reference as one quoted identifier               *)
(* "alias.column"; the qualifier the validator extracts is the qualifier   *)
(* in the text.                                                            *)

C26_Alias(ref) == SubSeq(ref, 1, IndexOf(ref, ".", 0))
C26_Column(ref) == SubSeq(ref, IndexOf(ref, ".", 0) + 2, Len(ref))

C26_IsQualified(ref) ==
  /\ IndexOf(ref, ".", 0) > 0
  /\ MatchesSafeName(C26_Alias(ref)) /\ MatchesSafeName(C26_Column(ref))

\* The ways of writing the reference with its qualifier kept.
C26_Kept(ref) ==
  {a \o <<".">> \o c :
     a \in {C26_Alias(ref), <<"\"">> \o C26_Alias(ref) \o <<"\"">>},
     c \in {C26_Column(ref), <<"\"">> \o C26_Column(ref) \o <<"\"">>}}

C26_StartsWith(text, p) == Len(text) >= Len(p) /\ SubSeq(text, 1, Len(p)) = p

C26_QualifierKept ==
  /\ (/\ call.fn = "toSQL" /\ Returned /\ ~result.threw
      /\ call.arg.type \in {"comparison", "pattern", "membership", "null"}
      /\ C26_IsQualified(call.arg.column)) =>
       /\ \E k \in C26_Kept(call.arg.column) : C26_StartsWith(result.text, k)
       /\ ~C26_StartsWith(result.text, <<"\"">> \o call.arg.column \o <<"\"">>)
       /\ extractTableFromColumn(call.arg.column) = C26_Alias(call.arg.column)
  /\ (/\ call.fn = "subqueryToSQL" /\ Returned /\ ~result.threw
      /\ call.arg.select.t = "string" /\ C26_IsQualified(call.arg.select.s)) =>
       /\ \E k \in C26_Kept(call.arg.select.s) :
            C26_StartsWith(result.text, <<"(">> \o T_SELECT \o k)
       /\ ~C26_StartsWith(result.text,
                          <<"(">> \o T_SELECT \o <<"\"">> \o call.arg.select.s \o <<"\"">>)

----------------------------------------------------------------------------
(* The policy builder.  policy-builder.ts is not among the sources at      *)
(* hand (composition.ts imports it), so these definitions follow its       *)
(* design, section 4.5: createPolicy(name), then on(table),                *)
(* for(operation), then any of to, when, withCheck, allow, restrictive and *)
(* description, then toSQL(options), which may be repeated.                *)

RECURSIVE indexColumns(_)
RECURSIVE firstSeen(_, _)

T_SELECT_op == <<"S", "E", "L", "E", "C", "T">>
T_INSERT_op == <<"I", "N", "S", "E", "R", "T">>
T_UPDATE_op == <<"U", "P", "D", "A", "T", "E">>
T_DELETE_op == <<"D", "E", "L", "E", "T", "E">>
T_ALL_op == <<"A", "L", "L">>
Operations == {T_SELECT_op, T_INSERT_op, T_UPDATE_op, T_DELETE_op, T_ALL_op}

T_CREATE_POLICY == <<"C", "R", "E", "A", "T", "E", " ", "P", "O", "L", "I", "C", "Y", " ">>
T_AS_RESTRICTIVE ==
  <<" ", "A", "S", " ", "R", "E", "S", "T", "R", "I", "C", "T", "I", "V", "E">>
T_FOR == <<" ", "F", "O", "R", " ">>
T_TO == <<" ", "T", "O", " ">>
T_USING == <<" ", "U", "S", "I", "N", "G", " ", "(">>
T_WITH_CHECK == <<" ", "W", "I", "T", "H", " ", "C", "H", "E", "C", "K", " ", "(">>
T_CREATE_INDEX ==
  <<"C", "R", "E", "A", "T", "E", " ", "I", "N", "D", "E", "X", " ", "I", "F", " ",
    "N", "O", "T", " ", "E", "X", "I", "S", "T", "S", " ", "i", "d", "x", "_">>

\* "<name>": the name in double quotes.
Quoted(name) == DQ \o ReplaceAll(name, "\"", <<"\"", "\"">>) \o DQ

\* createPolicy(name): nothing but the name is set, permissive by default.
createPolicy(name) ==
  [created |-> TRUE, name |-> name, table |-> JSUndefined, operation |-> JSUndefined,
   role |-> JSUndefined, using |-> NoCondition, withCheck |-> NoCondition,
   restrictive |-> FALSE, description |-> JSUndefined, called |-> {}]

\* A slip allow could have: INSERT treated like SELECT, the condition put
\* in USING.
allow_InsertUsing(p, cond) ==
  IF p.operation \in {T_SELECT_op, T_DELETE_op, T_INSERT_op}
  THEN [p EXCEPT !.using = cond]
  ELSE [p EXCEPT !.using = cond, !.withCheck = cond]

\* allow(cond): the clause is derived from the operation.
allow(p, cond) ==
  CASE p.operation = T_INSERT_op -> [p EXCEPT !.withCheck = cond]
    [] p.operation \in {T_SELECT_op, T_DELETE_op} -> [p EXCEPT !.using = cond]
    [] p.operation \in {T_UPDATE_op, T_ALL_op} ->
         [p EXCEPT !.using = cond, !.withCheck = cond]

\* The columns of equality comparisons and in-memberships of a tree, in
\* the order a walk meets them.
indexColumns(cond) ==
  CASE cond.type = "comparison" /\ cond.operator = "eq" -> <<cond.column>>
    [] cond.type = "membership" /\ cond.operator = "in" -> <<cond.column>>
    [] cond.type = "logical" ->
         IF cond.conditions = <<>> THEN <<>>
         ELSE indexColumns(Head(cond.conditions))
              \o indexColumns([cond EXCEPT !.conditions = Tail(@)])
    [] OTHER -> <<>>

\* A slip the de-duplication could have: every occurrence kept.
firstSeen_KeepAll(columns, seen) == seen \o columns

\* columns appended to seen, duplicates dropped, first-seen order kept.
firstSeen(columns, seen) ==
  IF columns = <<>> THEN seen
  ELSE firstSeen(Tail(columns), SetAdd(seen, Head(columns)))

indexCandidates(p) == firstSeen(indexColumns(p.using) \o indexColumns(p.withCheck), <<>>)

\* CREATE INDEX IF NOT EXISTS idx_<table>_<column> ON "<table>" ("<column>")
createIndex(table, column) ==
  T_CREATE_INDEX \o table \o <<"_">> \o column \o T_ON \o Quoted(table)
  \o <<" ", "(">> \o Quoted(column) \o <<")">>

\* A slip toSQL could have: a policy with no predicate is rendered.
policyToSQL_Permissive(p, options) ==
  [threw |-> FALSE,
   statements |-> <<T_CREATE_POLICY \o Quoted(p.name) \o T_ON \o Quoted(p.table)
                    \o T_FOR \o p.operation>>]

\* toSQL(options): the statements emitted, the CREATE POLICY last; it
\* throws when neither USING nor WITH CHECK was set.
policyToSQL(p, options) ==
  IF p.using = NoCondition /\ p.withCheck = NoCondition THEN Throw("Error")
  ELSE LET clause(keyword, cond) ==
             IF cond = NoCondition THEN Ok(<<>>)
             ELSE Template(<<Ok(keyword), toSQL(cond), Ok(<<")">>)>>)
           statement ==
             Template(<<Ok(T_CREATE_POLICY \o Quoted(p.name) \o T_ON \o Quoted(p.table)
                           \o (IF p.restrictive THEN T_AS_RESTRICTIVE ELSE <<>>)
                           \o T_FOR \o p.operation
                           \o (IF Truthy(p.role) THEN T_TO \o p.role ELSE <<>>)),
                        clause(T_USING, p.using), clause(T_WITH_CHECK, p.withCheck)>>)
           indexes ==
             IF options.includeIndexes
             THEN [i \in 1..Len(indexCandidates(p)) |->
                     createIndex(p.table, indexCandidates(p)[i])]
             ELSE <<>>
       IN IF statement.threw THEN statement
          ELSE [threw |-> FALSE, statements |-> indexes \o <<statement.text>>]

EqA(n) == createComparison(<<"a">>, "eq", NumberValue(n))
EqB(n) == createComparison(<<"b">>, "eq", NumberValue(n))

\* column('a').eq(1).and(column('b').eq(2)).and(column('a').eq(3)), the owner
\* check, an in-membership of b or-ed with comparisons of a, and a
\* condition with no equality in it.
PolicyConds ==
  {chainWith(chainWith(EqA(1), EqB(2), "AND"), EqA(3), "AND"),
   OwnerCheck,
   chainWith(chainWith(Membership(<<"b">>, "in", ArrayValue(<<NumberValue(1)>>)),
                       createComparison(<<"a">>, "gt", NumberValue(1)), "OR"),
             chainWith(EqA(1), EqB(2), "AND"), "OR"),
   Pattern(<<"a">>, "like", <<"a">>)}

InitPolicy ==
  /\ policy = createPolicy(<<"p">>)
  /\ rendered = NotRendered
  /\ RenderIdle /\ ChainIdle /\ BuilderIdle /\ HeapIdle /\ MemberIdle

Building == rendered = NotRendered
Targeted == policy.operation # JSUndefined

\* on(table)
On(table) ==
  /\ Building /\ policy.table = JSUndefined
  /\ policy' = [policy EXCEPT !.table = table]
  /\ UNCHANGED <<rendered, renderVars, chainVars, builderVars, heapVars, memberVars>>

\* for(operation)
For(operation) ==
  /\ Building /\ policy.table # JSUndefined /\ ~Targeted
  /\ policy' = [policy EXCEPT !.operation = operation]
  /\ UNCHANGED <<rendered, renderVars, chainVars, builderVars, heapVars, memberVars>>

\* to(role)
To(role) ==
  /\ Building /\ Targeted
  /\ policy' = [policy EXCEPT !.role = role]
  /\ UNCHANGED <<rendered, renderVars, chainVars, builderVars, heapVars, memberVars>>

\* when(cond)
When(cond) ==
  /\ Building /\ Targeted
  /\ policy' = [policy EXCEPT !.using = cond, !.called = @ \cup {"when"}]
  /\ UNCHANGED <<rendered, renderVars, chainVars, builderVars, heapVars, memberVars>>

\* withCheck(cond)
WithCheck(cond) ==
  /\ Building /\ Targeted
  /\ policy' = [policy EXCEPT !.withCheck = cond, !.called = @ \cup {"withCheck"}]
  /\ UNCHANGED <<rendered, renderVars, chainVars, builderVars, heapVars, memberVars>>

\* allow(cond)
Allow(cond) ==
  /\ Building /\ Targeted
  /\ policy' = [allow(policy, cond) EXCEPT !.called = @ \cup {"allow"}]
  /\ UNCHANGED <<rendered, renderVars, chainVars, builderVars, heapVars, memberVars>>

\* restrictive()
Restrictive ==
  /\ Building /\ Targeted
  /\ policy' = [policy EXCEPT !.restrictive = TRUE]
  /\ UNCHANGED <<rendered, renderVars, chainVars, builderVars, heapVars, memberVars>>

\* description(text)
Description(text) ==
  /\ Building /\ Targeted
  /\ policy' = [policy EXCEPT !.description = text]
  /\ UNCHANGED <<rendered, renderVars, chainVars, builderVars, heapVars, memberVars>>

\* toSQL(options)
ToSQL(options) ==
  /\ Targeted
  /\ rendered' = [rendered |-> TRUE, options |-> options,
                  result |-> policyToSQL(policy, options)]
  /\ UNCHANGED <<policy, renderVars, chainVars, builderVars, heapVars, memberVars>>

NextPolicy ==
  \/ On(<<"d">>)
  \/ \E operation \in Operations : For(operation)
  \/ To(<<"r">>)
  \/ \E cond \in PolicyConds : When(cond)
  \/ \E cond \in PolicyConds : WithCheck(cond)
  \/ \E cond \in PolicyConds : Allow(cond)
  \/ Restrictive
  \/ Description(<<"x">>)
  \/ \E b \in BOOLEAN : ToSQL([includeIndexes |-> b])

SpecPolicy == InitPolicy /\ [][NextPolicy]_vars

----------------------------------------------------------------------------
(* C15: allow(cond) places the condition by the operation chosen with      *)
(* for(...): INSERT sets WITH CHECK only, and a policy built with          *)
(* for('INSERT').allow(cond) renders WITH CHECK (cond) and no USING        *)
(* clause; SELECT and DELETE set USING only; UPDATE and ALL set both to    *)
(* the same condition.                                                     *)

\* sub occurs in text.
Contains(text, sub) ==
  \E i \in 0..(Len(text) - Len(sub)) : SubSeq(text, i + 1, i + Len(sub)) = sub

\* The CREATE POLICY statement last rendered, without indexes.
C15_Statement == rendered.result.statements[1]

C15_Using(cond) == <<" ", "U", "S", "I", "N", "G", " ", "(">> \o toSQL(cond).text \o <<")">>
C15_WithCheck(cond) ==
  <<" ", "W", "I", "T", "H", " ", "C", "H", "E", "C", "K", " ", "(">>
  \o toSQL(cond).text \o <<")">>

\* Every allow(cond) step sets the clauses its operation names and no
\* other; and a policy on which only allow was called renders those clauses
\* and no other.
C15_AllowPlacesByOperation ==
  /\ [][\A cond \in PolicyConds :
          Allow(cond) =>
            /\ policy.operation = <<"I", "N", "S", "E", "R", "T">> =>
                 policy'.withCheck = cond /\ policy'.using = policy.using
            /\ policy.operation \in {<<"S", "E", "L", "E", "C", "T">>,
                                     <<"D", "E", "L", "E", "T", "E">>} =>
                 policy'.using = cond /\ policy'.withCheck = policy.withCheck
            /\ policy.operation \in {<<"U", "P", "D", "A", "T", "E">>, <<"A", "L", "L">>} =>
                 policy'.using = cond /\ policy'.withCheck = cond]_vars
  /\ []((/\ rendered # NotRendered /\ policy.called = {"allow"}
         /\ ~rendered.options.includeIndexes) =>
          /\ ~rendered.result.threw
          /\ policy.operation = <<"I", "N", "S", "E", "R", "T">> =>
               /\ Contains(C15_Statement, C15_WithCheck(policy.withCheck))
               /\ ~Contains(C15_Statement, <<"U", "S", "I", "N", "G">>)
          /\ policy.operation \in {<<"S", "E", "L", "E", "C", "T">>,
                                   <<"D", "E", "L", "E", "T", "E">>} =>
               /\ Contains(C15_Statement, C15_Using(policy.using))
               /\ ~Contains(C15_Statement, <<"C", "H", "E", "C", "K">>)
          /\ policy.operation \in {<<"U", "P", "D", "A", "T", "E">>, <<"A", "L", "L">>} =>
               /\ policy.using = policy.withCheck
               /\ Contains(C15_Statement,
                           C15_Using(policy.using) \o C15_WithCheck(policy.withCheck)))

\* for('INSERT').allow(column('user_id').eq(auth.uid())) has been rendered.
C15_InsertAllowRendered ==
  /\ policy.created /\ policy.operation = <<"I", "N", "S", "E", "R", "T">>
  /\ policy.called = {"allow"} /\ policy.withCheck = OwnerCheck
  /\ policy.role = JSUndefined /\ ~policy.restrictive
  /\ rendered # NotRendered /\ ~rendered.options.includeIndexes
  /\ rendered.result.statements =
       <<<<"C", "R", "E", "A", "T", "E", " ", "P", "O", "L", "I", "C", "Y",
      " ", "\"", "p", "\"", " ", "O", "N", " ", "\"", "d", "\"", " ",
      "F", "O", "R", " ", "I", "N", "S", "E", "R", "T", " ", "W", "I",
      "T", "H", " ", "C", "H", "E", "C", "K", " ", "(", "u", "s", "e",
      "r", "_", "i", "d", " ", "=", " ", "a", "u", "t", "h", ".", "u",
      "i", "d", "(", ")", ")">>>>

----------------------------------------------------------------------------
(* C16: when none of when, withCheck and allow was ever called, toSQL()    *)
(* fails; no CREATE POLICY without a predicate is ever emitted.            *)

C16_NoPredicateNoStatement ==
  (rendered # NotRendered /\ policy.called = {}) => rendered.result.threw

\* toSQL() has failed on a policy with table, operation, role, restrictive
\* flag and description set, and no predicate.
C16_FailedWithoutPredicate ==
  /\ rendered # NotRendered /\ policy.called = {}
  /\ policy.role # JSUndefined /\ policy.restrictive /\ policy.description # JSUndefined
  /\ rendered.result.threw

----------------------------------------------------------------------------
(* C17: toSQL({includeIndexes: true}) emits, before the CREATE POLICY      *)
(* statement, exactly one CREATE INDEX statement per distinct column of an *)
(* equality comparison or membership in the USING / WITH CHECK trees, in   *)
(* first-seen order: equality on a, b, then a again gives two, for a then  *)
(* b.                                                                      *)

RECURSIVE C17_Walk(_)

\* The columns of the equality comparisons and memberships of a tree, left
\* to right, repeated as often as they occur.
C17_Walk(cond) ==
  IF cond.type = "logical"
  THEN LET parts == [i \in 1..Len(cond.conditions) |-> C17_Walk(cond.conditions[i])]
           concat[k \in 0..Len(parts)] == IF k = 0 THEN <<>> ELSE concat[k - 1] \o parts[k]
       IN concat[Len(parts)]
  ELSE IF \/ cond.type = "comparison" /\ cond.operator = "eq"
          \/ cond.type = "membership" /\ cond.operator = "in"
  THEN <<cond.column>>
  ELSE <<>>

C17_FirstAt(walk, column) == CHOOSE k \in 1..Len(walk) :
  walk[k] = column /\ \A j \in 1..(k - 1) : walk[j] # column

C17_IndexFor(table, column) ==
  <<"C", "R", "E", "A", "T", "E", " ", "I", "N", "D", "E", "X", " ", "I", "F", " ",
    "N", "O", "T", " ", "E", "X", "I", "S", "T", "S", " ", "i", "d", "x", "_">>
  \o table \o <<"_">> \o column \o <<" ", "O", "N", " ", "\"">> \o table
  \o <<"\"", " ", "(", "\"">> \o column \o <<"\"", ")">>

C17_IndexPerDistinctColumn ==
  (rendered # NotRendered /\ rendered.options.includeIndexes /\ ~rendered.result.threw) =>
    LET statements == rendered.result.statements
        n == Len(statements) - 1
        walk == C17_Walk(policy.using) \o C17_Walk(policy.withCheck)
        columns == {walk[k] : k \in 1..Len(walk)}
    IN /\ n = Cardinality(columns)
       /\ SubSeq(statements[n + 1], 1, 14)
            = <<"C", "R", "E", "A", "T", "E", " ", "P", "O", "L", "I", "C", "Y", " ">>
       /\ \A i \in 1..n :
            \E c \in columns :
              /\ statements[i] = C17_IndexFor(policy.table, c)
              /\ \A j \in (i + 1)..n, d \in columns :
                   statements[j] = C17_IndexFor(policy.table, d) =>
                     C17_FirstAt(walk, c) < C17_FirstAt(walk, d)

\* The policy whose USING clause compares a, then b, then a again has been
\* rendered with indexes: one for a, one for b, then the policy.
C17_TwoIndexesForABA ==
  /\ rendered # NotRendered /\ rendered.options.includeIndexes
  /\ policy.using = chainWith(chainWith(EqA(1), EqB(2), "AND"), EqA(3), "AND")
  /\ policy.withCheck = NoCondition
  /\ Len(rendered.result.statements) = 3
  /\ rendered.result.statements[1] =
       <<"C", "R", "E", "A", "T", "E", " ", "I", "N", "D", "E", "X", " ",
      "I", "F", " ", "N", "O", "T", " ", "E", "X", "I", "S", "T", "S",
      " ", "i", "d", "x", "_", "d", "_", "a", " ", "O", "N", " ", "\"",
      "d", "\"", " ", "(", "\"", "a", "\"", ")">>
  /\ rendered.result.statements[2] =
       <<"C", "R", "E", "A", "T", "E", " ", "I", "N", "D", "E", "X", " ",
      "I", "F", " ", "N", "O", "T", " ", "E", "X", "I", "S", "T", "S",
      " ", "i", "d", "x", "_", "d", "_", "b", " ", "O", "N", " ", "\"",
      "d", "\"", " ", "(", "\"", "b", "\"", ")">>

=============================================================================
